---- MODULE Spec2Model ----
(***************************************************************************)
(* Model of DatabaseBalancer (database.py): the dual-provider mirrored     *)
(* store.  One process, single-threaded.  The constructor, the mirrored    *)
(* write of insert_file, the load-balanced read and total-failure handling *)
(* are modelled statement-execution by statement-execution: one step is    *)
(* one cursor.execute on one provider together with the except-branch the  *)
(* code runs for its outcome (reconnect, mark inactive, alert).            *)
(***************************************************************************)
EXTENDS Integers, FiniteSets, Sequences, TLC

\* ------------------------------------------------------------- bounds
\* statement executions one host thread may see fail
MaxThreadExecs == 2
\* number of insert_file calls a run may issue
MaxWrites == 2
\* rows both providers already hold when the process starts
MaxInitRows == 1

\* ---------------------------------------------------------- constants
\* last_sl_no = "Unknown" (the default of _handle_total_failure)
Unknown == -1
\* MAX(sl_no) of an empty cache table (SQL NULL, Python None)
NoRows == 0

Providers == {"A", "B"}
\* what one cursor.execute (+ fetchone) of a write can do
WriteOutcomes == {"ok", "exec_conn", "exec_hard", "fetch_conn", "fetch_hard"}
\* what one cursor.execute (+ fetch) of a read can do
ReadOutcomes == {"ok", "conn", "hard"}
NoRow == <<0, 0>>

VARIABLES
    url,          \* url[p]: NHOST_DB_URL / NEON_DB_URL is configured
    useCache,     \* constructor argument use_local_cache
    active,       \* provider_a_active / provider_b_active
    tbl,          \* tbl[p]: rows <<sl_no, write id>> of media_library on p
    seq,          \* seq[p]: next sl_no the auto-increment counter of p assigns
    cacheOpen,    \* cache_cursor is set
    cache,        \* rows <<sl_no, write id>> of the local cache file
    alerts,       \* alerts[p]: single-provider-down alerts emitted for p
    critical,     \* the critical alert: [emitted, sl]
    lastSl,       \* last_sl_no local of _handle_total_failure
    queryFailed,  \* the cache query of _handle_total_failure raised
    exitCode,     \* -1 while running, else the argument of sys.exit
    pc,           \* position of the process
    kind,         \* the operation in progress or last finished
    curW,         \* write id of the insert in progress or last finished
    attempt,      \* loop variable `attempt`
    success,      \* success_a / success_b
    res,          \* res_a / res_b
    startActive,  \* the active flags when the current operation began
    outcome,      \* how the last operation ended
    result,       \* the row the last write returned (NoRow for None)
    servedBy,     \* provider whose execution the last read returned
    depth,        \* recursive re-invocations of the current read
    execs,        \* execs[p]: statement executions on p in the current op
    reconns,      \* reconns[p]: reconnect attempts on p in the current op
    retryOf,      \* provider reconnected by attempt 0 of this invocation
    lastExec,     \* the latest read execution: [p, attempt, out, prev],
                  \* prev the provider the iteration before it reconnected
    acked,        \* write ids whose insert_file returned normally
    startedBoth,  \* both providers were active when the constructor ended
    trips,        \* trips[p]: rows <<sl_no, name id>> of trips_config on p
    tripSeq,      \* tripSeq[p]: next sl_no of trips_config on p
    cacheTrips,   \* rows <<sl_no, name id>> of the cache's trips_config
    recRun,       \* runs of reconcile_databases begun in this process
    recTable,     \* the table _reconcile_table is working on, or "none"
    recCompared,  \* recCompared[t]: the max(sl_no) queries for t were issued
    recMaxErr,    \* recMaxErr[t]: a max(sl_no) query for t raised
    recLeader,    \* recLeader[t]: leading provider designated for t, or "none"
    recFetched,   \* missing_rows of the current table, ascending by sl_no
    recMissing,   \* the part of missing_rows not yet inserted into the lagger
    recErr,       \* recErr[t]: an error was logged for t in this run
    recInserted,  \* recInserted[t]: rows inserted into the lagger in this run
    recCached,    \* recCached[t]: rows upserted into the cache in this run
    recAlert,     \* recAlert[t]: recovery-success alerts for t in this run
    recSynced,    \* recSynced[p]: what _sync_sequences did on p in this run
    recStart,     \* tables, counters and cache when the current run began
    recClean,     \* the previous run logged no error and no warning
    recFaults,    \* statements of reconciliation that raised so far
    lookup,       \* the cache-first lookup in progress or last finished
    restarts,     \* process restarts so far
    nameLookup,   \* the last file_exists_by_name: table, query, answer
    connCall,     \* the last direct call of _reconnect_provider
    smtp,        \* what the mail server does with a notification
    thr,        \* thr[th]: position of host thread th inside a read call
    sync,       \* the sync_cloud_to_local call in progress or last finished
    album,      \* album[p]: album_id of the trip's trips_config row on provider p
    cacheAlbum, \* album_id of the trip's row in the cache
    upd          \* the update_trip_album_id call: the id, how the write and the call ended

vars == <<url, useCache, active, tbl, seq, cacheOpen, cache, alerts, critical,
          lastSl, queryFailed, exitCode, pc, kind, curW, attempt, success, res, startActive,
          outcome, result, servedBy, depth, execs, reconns, retryOf, lastExec,
          acked, startedBoth, trips, tripSeq, cacheTrips, recRun, recTable,
          recCompared, recMaxErr, recLeader, recFetched, recMissing, recErr,
          recInserted, recCached, recAlert, recSynced, recStart, recClean,
          recFaults,
          lookup, restarts, nameLookup, connCall, smtp,
          thr,
          sync,
          album,
          cacheAlbum,
          upd>>

\* the state of the second table, of reconciliation, of lookups and restarts
recVars == <<recRun, recTable, recCompared, recMaxErr, recLeader, recFetched,
             recMissing, recErr, recInserted, recCached, recAlert, recSynced,
             recStart, recClean, recFaults>>
\* the observations of single calls, and the mail server
auxVars == <<nameLookup, connCall, smtp, thr, sync, album, cacheAlbum, upd>>
\* the album id of the one trip the model follows
albumVars == <<album, cacheAlbum, upd>>
extVars == <<trips, tripSeq, cacheTrips, recVars, lookup, restarts, auxVars>>

opVars == <<kind, curW, attempt, success, res, startActive, outcome, result,
            servedBy, depth, execs, reconns, retryOf, lastExec>>

\* ------------------------------------------------------------ helpers
Max(S) == CHOOSE x \in S : \A y \in S : y <= x

InitialRows(k) == {<<i, 0>> : i \in 1..k}

Applied(p, w) == \E r \in tbl[p] : r[2] = w

\* SELECT MAX(sl_no) FROM media_library on the cache
CacheMax == IF cache = {} THEN NoRows ELSE Max({r[1] : r \in cache})

\* mutant: a plain INSERT without a key
CacheInsert(c, row) == c \cup {row}

\* REPLACE INTO media_library (sl_no, ...): sl_no is the primary key
CacheReplace(c, row) == {r \in c : r[1] # row[1]} \cup {row}

AllFalse == [p \in Providers |-> FALSE]
AllZero == [p \in Providers |-> 0]
NoExec == [p |-> "none", attempt |-> 0, out |-> "none", prev |-> "none"]

Tables == {"media_library", "trips_config"}
NoTableFlag == [t \in Tables |-> FALSE]
NoTableCount == [t \in Tables |-> 0]
NoLeader == [t \in Tables |-> "none"]
NoSync == [p \in Providers |-> "no"]
NoLookup == [op |-> "none", key |-> 0, source |-> "none", answer |-> FALSE,
             cacheRaised |-> FALSE]
NoName == [stem |-> <<>>, ext |-> "none"]
NoNameLookup == [via |-> "none", stored |-> {}, q |-> NoName, answer |-> FALSE]
NoConnCall == [p |-> "none", out |-> "none", ret |-> FALSE, raised |-> FALSE,
               autocommit |-> FALSE]
\* host threads that call the store after construction
Threads == {"t1", "t2"}
NoThread == [pc |-> "out", p |-> "none", attempt |-> 0, execs |-> 0]
NoThreads == [th \in Threads |-> NoThread]
\* sync_cloud_to_local not called: phase, the provider that served the
\* media_library read, whether the except branch of line 490 ran
NoSyncCall == [phase |-> "none", served |-> "none", err |-> FALSE]
\* album_id NULL: the trip has no album yet
NoAlbum == "none"
NoAlbums == [p \in Providers |-> NoAlbum]
AlbumIds == {"album1", "album2"}
\* update_trip_album_id not called
NoUpdate == [id |-> NoAlbum, write |-> "none", call |-> "none"]
\* SMTP configured and working; configured and failing; not configured
SmtpStates == {"up", "down", "unconfigured"}

\* tables, counters and cache as a run of reconcile_databases finds them
Snapshot == [tbl |-> tbl, trips |-> trips, seq |-> seq, tripSeq |-> tripSeq,
             cache |-> cache, cacheTrips |-> cacheTrips]

\* no reconciliation has run, no lookup is in progress
RecIdle ==
    /\ recRun = 0
    /\ recTable = "none"
    /\ recCompared = NoTableFlag
    /\ recMaxErr = NoTableFlag
    /\ recLeader = NoLeader
    /\ recFetched = <<>>
    /\ recMissing = <<>>
    /\ recErr = NoTableFlag
    /\ recInserted = NoTableCount
    /\ recCached = NoTableCount
    /\ recAlert = NoTableCount
    /\ recSynced = NoSync
    /\ recStart = Snapshot
    /\ recClean = FALSE
    /\ recFaults = 0
    /\ lookup = NoLookup
    /\ restarts = 0
    /\ nameLookup = NoNameLookup
    /\ connCall = NoConnCall
    /\ upd = NoUpdate
    /\ cacheAlbum = NoAlbum
    /\ album = NoAlbums
    /\ sync = NoSyncCall
    /\ thr = NoThreads

\* --------------------------------------------------------------- Init
\* The state at entry of __init__: flags False (lines 62-63), no connection,
\* no cache cursor.  The two provider tables start equal (a previous run
\* ended reconciled); the cache file holds a prefix of them.
InitAnyMail ==
    /\ url \in [Providers -> BOOLEAN]
    /\ useCache \in BOOLEAN
    /\ active = AllFalse
    /\ \E k \in 0..MaxInitRows :
         /\ tbl = [p \in Providers |-> InitialRows(k)]
         /\ seq = [p \in Providers |-> k + 1]
         /\ \E c \in 0..k : cache = InitialRows(c)
    /\ cacheOpen = FALSE
    /\ alerts = AllZero
    /\ critical = [emitted |-> FALSE, sl |-> Unknown]
    /\ lastSl = Unknown
    /\ queryFailed = FALSE
    /\ exitCode = -1
    /\ pc = "ctor_A"
    /\ kind = "none"
    /\ curW = 0
    /\ attempt = 0
    /\ success = AllFalse
    /\ res = [p \in Providers |-> NoRow]
    /\ startActive = AllFalse
    /\ outcome = "none"
    /\ result = NoRow
    /\ servedBy = "none"
    /\ depth = 0
    /\ execs = AllZero
    /\ reconns = AllZero
    /\ retryOf = "none"
    /\ lastExec = NoExec
    /\ acked = {}
    /\ startedBoth = FALSE
    /\ trips = [p \in Providers |-> {}]
    /\ tripSeq = [p \in Providers |-> 1]
    /\ cacheTrips = {}
    /\ RecIdle

\* ... with a mail server that delivers
Init == InitAnyMail /\ smtp = "up"

\* ------------------------------------------------- Connection Manager
\* _is_connection_error: the transient (reconnect-and-retry) error class
IsConnectionError(out) == out \in {"exec_conn", "fetch_conn", "conn"}

\* _reconnect_provider(p): on success the flag is set True, on failure
\* False; `ok` is what pg8000.dbapi.connect did
ReconnectProvider(act, p, ok) == [act EXCEPT ![p] = ok]

\* mutant: the except branch forgets to clear the flag
MarkInactiveForgotten(act, p) == act

\* `self.provider_x_active = False` of the except branches
MarkInactive(act, p) == [act EXCEPT ![p] = FALSE]

\* mutant: the alert goes out from the reconnect failure and again from the
\* except branch
HandleSingleFailureTwice(al, p) == [al EXCEPT ![p] = @ + 2]

\* _handle_single_failure: one "Provider ... Down" alert
HandleSingleFailure(al, p) == [al EXCEPT ![p] = @ + 1]

\* mutant: an SMTP exception escapes send_notification_email
SendNotificationRaisesWhenDown(s) == s = "down"

\* send_notification_email (lines 24-50) returns after the skip for missing
\* credentials (32-34), after sending, and after the except branch that
\* logs an SMTP failure (49-50): it raises in no state of the mail server
SendNotificationRaises(s) == FALSE

\* where a handler goes on after it called send_notification_email
AfterAlertPc(next) == IF SendNotificationRaises(smtp) THEN "raised" ELSE next

\* mutant: a connection error reconnects on every attempt
ShouldReconnectAnyAttempt(att, out) == IsConnectionError(out)

\* `if attempt == 0 and self._is_connection_error(e)`
ShouldReconnect(att, out) == att = 0 /\ IsConnectionError(out)

\* ---------------------------------------------------------- constructor
CtorPc(p) == IF p = "A" THEN "ctor_A" ELSE "ctor_B"
AfterCtorPc(p) == IF p = "A" THEN "ctor_B" ELSE "ctor_check"

\* _connect_providers, one provider: connect when its URL is configured,
\* alert when the connection fails
ConnectProvider(p, ok) ==
    /\ pc = CtorPc(p)
    /\ IF url[p]
       THEN /\ active' = ReconnectProvider(active, p, ok)
            /\ alerts' = IF ok THEN alerts ELSE HandleSingleFailure(alerts, p)
       ELSE UNCHANGED <<active, alerts>>
    /\ pc' = IF url[p] /\ ~ok THEN AfterAlertPc(AfterCtorPc(p))
             ELSE AfterCtorPc(p)
    /\ UNCHANGED <<url, useCache, tbl, seq, cacheOpen, cache, critical, lastSl,
                   queryFailed, exitCode, acked, startedBoth>>
    /\ UNCHANGED opVars
    /\ UNCHANGED extVars

\* mutant: the total-failure test is missing
NoProviderActiveNever(act) == FALSE

\* `if not self.provider_a_active and not self.provider_b_active`
NoProviderActive(act) == \A p \in Providers : ~act[p]

\* SELECT MAX(sl_no) FROM t, as lines 291-292 use it: an empty table (NULL)
\* leaves max at 0
MaxSlNo(rows) == IF rows = {} THEN 0 ELSE Max({r[1] : r \in rows})

\* mutant: the next value is the table's max itself
SyncedCounterAtMax(rows, cur) == IF MaxSlNo(rows) >= 1 THEN MaxSlNo(rows) ELSE 1

\* mutant: the counter is advanced by one instead of being set from the table
SyncedCounterAdvance(rows, cur) == cur + 1

\* lines 261-266: setval(seq, COALESCE(MAX(sl_no), 1)); the next value the
\* counter assigns is one above it.  `cur` is the counter before.
SyncedCounter(rows, cur) == (IF MaxSlNo(rows) >= 1 THEN MaxSlNo(rows) ELSE 1) + 1

\* The rest of __init__: the total-failure test of _connect_providers, then
\* init_local_cache (`open`: sqlite3.connect worked) and, for a cached
\* instance, reconcile_databases.  The provider tables start equal, so
\* reconcile_databases finds max_a = max_b for each table and copies
\* nothing; _sync_sequences (taken not to raise here) sets the counters of
\* each active provider from its tables.
CtorFinish(open) ==
    /\ pc = "ctor_check"
    /\ kind' = "ctor"
    /\ startActive' = active
    /\ IF NoProviderActive(active)
       THEN /\ pc' = "tf_read"
            /\ outcome' = "total_failure"
            /\ UNCHANGED <<cacheOpen, startedBoth, seq, tripSeq>>
       ELSE /\ pc' = "idle"
            /\ outcome' = "returned"
            /\ cacheOpen' = (useCache /\ open)
            /\ startedBoth' = (\A p \in Providers : active[p])
            /\ seq' = [p \in Providers |->
                         IF useCache /\ active[p]
                         THEN SyncedCounter(tbl[p], seq[p]) ELSE seq[p]]
            /\ tripSeq' = [p \in Providers |->
                             IF useCache /\ active[p]
                             THEN SyncedCounter(trips[p], tripSeq[p])
                             ELSE tripSeq[p]]
    /\ UNCHANGED <<url, useCache, active, tbl, cache, alerts, critical,
                   lastSl, queryFailed, exitCode, acked>>
    /\ UNCHANGED <<curW, attempt, success, res, result, servedBy, depth, execs,
                   reconns, retryOf, lastExec>>
    /\ UNCHANGED <<trips, cacheTrips, recVars, lookup, restarts, auxVars>>

\* ------------------------------------------------ _handle_total_failure
\* mutant: the cache is never consulted
ReadWatermarkNoCache(open, qfail) == Unknown

\* lines 149-155: last_sl_no from the cache when cache_cursor is set and
\* the query does not raise (`qfail`), else "Unknown"
ReadWatermark(open, qfail) == IF open /\ ~qfail THEN CacheMax ELSE Unknown

TotalFailureReadCache(qfail) ==
    /\ pc = "tf_read"
    /\ queryFailed' = (cacheOpen /\ qfail)
    /\ lastSl' = ReadWatermark(cacheOpen, qfail)
    /\ pc' = "tf_alert"
    /\ UNCHANGED <<url, useCache, active, tbl, seq, cacheOpen, cache, alerts,
                   critical, exitCode, acked, startedBoth>>
    /\ UNCHANGED opVars
    /\ UNCHANGED extVars

\* lines 157-159: the critical alert carrying last_sl_no
CriticalAlert(sl) == [emitted |-> TRUE, sl |-> sl]

TotalFailureAlert ==
    /\ pc = "tf_alert"
    /\ critical' = CriticalAlert(lastSl)
    /\ pc' = AfterAlertPc("tf_exit")
    /\ UNCHANGED <<url, useCache, active, tbl, seq, cacheOpen, cache, alerts,
                   lastSl, queryFailed, exitCode, acked, startedBoth>>
    /\ UNCHANGED opVars
    /\ UNCHANGED extVars

\* line 160: sys.exit(1)
TotalFailureExit ==
    /\ pc = "tf_exit"
    /\ exitCode' = 1
    /\ pc' = "exited"
    /\ UNCHANGED <<url, useCache, active, tbl, seq, cacheOpen, cache, alerts,
                   critical, lastSl, queryFailed, acked, startedBoth>>
    /\ UNCHANGED opVars
    /\ UNCHANGED extVars


\* ------------------------------------------------- mirrored write
\* mutant: Provider B's block comes first
WritePcBFirst(p) == IF p = "A" THEN "write_B" ELSE "write_A"

WritePc(p) == IF p = "A" THEN "write_A" ELSE "write_B"
AfterWritePc(p) == IF p = "A" THEN "write_B" ELSE "write_end"

\* the statement reached the server: cursor.execute returned
StatementApplied(out) == out \in {"ok", "fetch_conn", "fetch_hard"}

\* mutant: the write is attempted on every configured provider, whatever
\* its flag
WriteTargetsAll(act) == {p \in Providers : url[p]}

\* `if self.provider_a_active:` / `if self.provider_b_active:` (172, 191)
WriteTargets(act) == {p \in Providers : act[p]}

\* insert_file -> execute_query(is_write=True, fetch_one=True), lines 166-170
WriteBegin ==
    /\ pc = "idle"
    /\ curW < MaxWrites
    /\ curW' = curW + 1
    /\ kind' = "write"
    /\ startActive' = active
    /\ attempt' = 0
    /\ success' = AllFalse
    /\ res' = [p \in Providers |-> NoRow]
    /\ outcome' = "none"
    /\ result' = NoRow
    /\ servedBy' = "none"
    /\ depth' = 0
    /\ execs' = AllZero
    /\ reconns' = AllZero
    /\ retryOf' = "none"
    /\ lastExec' = NoExec
    /\ pc' = "write_A"
    /\ UNCHANGED <<url, useCache, active, tbl, seq, cacheOpen, cache, alerts,
                   critical, lastSl, queryFailed, exitCode, acked, startedBoth>>
    /\ UNCHANGED extVars

\* the provider's `if` is false: nothing is executed on it
WriteSkip(p) ==
    /\ pc = WritePc(p)
    /\ p \notin WriteTargets(active)
    /\ pc' = AfterWritePc(p)
    /\ UNCHANGED <<url, useCache, active, tbl, seq, cacheOpen, cache, alerts,
                   critical, lastSl, queryFailed, exitCode, acked, startedBoth>>
    /\ UNCHANGED opVars
    /\ UNCHANGED extVars

\* One iteration of `for attempt in range(2)` on provider p (173-189,
\* 192-208): execute, and for an exception the except branch.  `out` is what
\* the execution did, `rc` what the reconnect did.
WriteAttempt(p, out, rc) ==
    /\ pc = WritePc(p)
    /\ p \in WriteTargets(active)
    /\ execs' = [execs EXCEPT ![p] = @ + 1]
    /\ IF StatementApplied(out)
       THEN /\ tbl' = [tbl EXCEPT ![p] = @ \cup {<<seq[p], curW>>}]
            /\ seq' = [seq EXCEPT ![p] = @ + 1]
            /\ success' = [success EXCEPT ![p] = TRUE]
       ELSE UNCHANGED <<tbl, seq, success>>
    /\ res' = IF out = "ok" THEN [res EXCEPT ![p] = <<seq[p], curW>>] ELSE res
    /\ IF out = "ok"
       THEN /\ pc' = AfterWritePc(p)
            /\ attempt' = 0
            /\ UNCHANGED <<active, alerts, reconns>>
       ELSE IF ShouldReconnect(attempt, out)
       THEN /\ reconns' = [reconns EXCEPT ![p] = @ + 1]
            /\ IF rc
               THEN \* `continue`: the next iteration, or the end of the loop
                    /\ active' = ReconnectProvider(active, p, TRUE)
                    /\ attempt' = IF attempt = 0 THEN 1 ELSE 0
                    /\ pc' = IF attempt = 0 THEN pc ELSE AfterWritePc(p)
                    /\ UNCHANGED alerts
               ELSE /\ active' = MarkInactive(ReconnectProvider(active, p, FALSE), p)
                    /\ alerts' = HandleSingleFailure(alerts, p)
                    /\ attempt' = 0
                    /\ pc' = AfterAlertPc(AfterWritePc(p))
       ELSE /\ active' = MarkInactive(active, p)
            /\ alerts' = HandleSingleFailure(alerts, p)
            /\ attempt' = 0
            /\ pc' = AfterAlertPc(AfterWritePc(p))
            /\ UNCHANGED reconns
    /\ UNCHANGED <<url, useCache, cacheOpen, cache, critical, lastSl, queryFailed, exitCode,
                   acked, startedBoth>>
    /\ UNCHANGED <<kind, curW, startActive, outcome, result, servedBy, depth,
                   retryOf, lastExec>>
    /\ UNCHANGED extVars

\* mutant: the write returns although no provider is left
WriteOutcomeNoTotalFailure(act, succ) ==
    IF \E p \in Providers : act[p] /\ ~succ[p] THEN "raised" ELSE "returned"

\* mutant: the write raises when any provider did not apply, active or not
WriteOutcomeAnyFailure(act, succ) ==
    IF \A p \in Providers : ~act[p] THEN "total_failure"
    ELSE IF \E p \in Providers : ~succ[p] THEN "raised"
    ELSE "returned"

\* lines 210-216: how the write call ends
WriteOutcome(act, succ) ==
    IF NoProviderActive(act) THEN "total_failure"
    ELSE IF \E p \in Providers : act[p] /\ ~succ[p] THEN "raised"
    ELSE "returned"

\* mutant: Provider A's result is returned whatever success_a says
WriteResultAlwaysA(succ, rs) == rs["A"]

\* line 216: `return res_a if success_a else res_b`
WriteResult(succ, rs) == IF succ["A"] THEN rs["A"] ELSE rs["B"]

\* lines 210-216, and for a normal return the rest of insert_file (569-575):
\* the returned row replaces the cache row with its sl_no
WriteFinish ==
    /\ pc = "write_end"
    /\ outcome' = WriteOutcome(active, success)
    /\ IF outcome' = "total_failure"
       THEN /\ pc' = "tf_read"
            /\ UNCHANGED <<result, cache, acked>>
       ELSE IF outcome' = "raised"
       THEN /\ pc' = "idle"
            /\ UNCHANGED <<result, cache, acked>>
       ELSE /\ pc' = "idle"
            /\ result' = WriteResult(success, res)
            /\ cache' = IF cacheOpen /\ result' # NoRow
                        THEN CacheReplace(cache, result')
                        ELSE cache
            /\ acked' = acked \cup {curW}
    /\ UNCHANGED <<url, useCache, active, tbl, seq, cacheOpen, alerts, critical,
                   lastSl, queryFailed, exitCode, startedBoth>>
    /\ UNCHANGED <<kind, curW, attempt, success, res, startActive, servedBy,
                   depth, execs, reconns, retryOf, lastExec>>
    /\ UNCHANGED extVars


\* ------------------------------------------------- load-balanced read
\* mutant: every configured provider is an option, whatever its flag
ReadOptionsAll(act) == {p \in Providers : url[p]}

\* mutant: Provider B is never offered
ReadOptionsOnlyA(act) == {p \in {"A"} : act[p]}

\* lines 221-223: the providers random.choice picks from
ReadOptions(act) == {p \in Providers : act[p]}

\* the provider an iteration of the read loop executes on; `prev` is the
\* provider the previous iteration reconnected ("none" on a first
\* iteration): line 228 draws afresh from the options on every iteration
ReadChoices(act, prev) == ReadOptions(act)

\* execute_query(is_write=False) is called by a lookup (line 218)
ReadBegin ==
    /\ pc = "idle"
    /\ kind' = "read"
    /\ startActive' = active
    /\ attempt' = 0
    /\ success' = AllFalse
    /\ res' = [p \in Providers |-> NoRow]
    /\ outcome' = "none"
    /\ result' = NoRow
    /\ servedBy' = "none"
    /\ depth' = 0
    /\ execs' = AllZero
    /\ reconns' = AllZero
    /\ retryOf' = "none"
    /\ lastExec' = NoExec
    /\ pc' = "read"
    /\ UNCHANGED <<url, useCache, active, tbl, seq, cacheOpen, cache, alerts,
                   critical, lastSl, queryFailed, exitCode, acked, startedBoth, curW>>
    /\ UNCHANGED extVars

\* lines 225-226: no active provider is left
ReadNoOptions ==
    /\ pc = "read"
    /\ ReadOptions(active) = {}
    /\ outcome' = "total_failure"
    /\ pc' = "tf_read"
    /\ UNCHANGED <<url, useCache, active, tbl, seq, cacheOpen, cache, alerts,
                   critical, lastSl, queryFailed, exitCode, acked, startedBoth>>
    /\ UNCHANGED <<kind, curW, attempt, success, res, startActive, result,
                   servedBy, depth, execs, reconns, retryOf, lastExec>>
    /\ UNCHANGED extVars

\* One iteration of the read loop (lines 228-250) on the chosen provider p:
\* execute and return, or the except branch: reconnect and `continue`, or
\* mark p inactive, alert and re-invoke execute_query (a fresh attempt loop).
ReadAttempt(p, out, rc) ==
    /\ pc = "read"
    /\ p \in ReadChoices(active, retryOf)
    /\ execs' = [execs EXCEPT ![p] = @ + 1]
    /\ lastExec' = [p |-> p, attempt |-> attempt, out |-> out, prev |-> retryOf]
    /\ IF out = "ok"
       THEN /\ outcome' = "returned"
            /\ servedBy' = p
            /\ pc' = "idle"
            /\ UNCHANGED <<active, alerts, reconns, attempt, depth, retryOf>>
       ELSE IF ShouldReconnect(attempt, out)
       THEN /\ reconns' = [reconns EXCEPT ![p] = @ + 1]
            /\ IF rc
               THEN \* `continue`: the next iteration, or the loop ends
                    \* and execute_query returns None
                    /\ active' = ReconnectProvider(active, p, TRUE)
                    /\ attempt' = IF attempt = 0 THEN 1 ELSE 0
                    /\ retryOf' = p
                    /\ outcome' = IF attempt = 0 THEN outcome ELSE "returned"
                    /\ pc' = IF attempt = 0 THEN pc ELSE "idle"
                    /\ UNCHANGED <<alerts, depth>>
               ELSE /\ active' = MarkInactive(ReconnectProvider(active, p, FALSE), p)
                    /\ alerts' = HandleSingleFailure(alerts, p)
                    /\ attempt' = 0
                    /\ retryOf' = "none"
                    /\ depth' = depth + 1
                    /\ pc' = AfterAlertPc(pc)
                    /\ UNCHANGED outcome
            /\ UNCHANGED servedBy
       ELSE /\ active' = MarkInactive(active, p)
            /\ alerts' = HandleSingleFailure(alerts, p)
            /\ attempt' = 0
            /\ retryOf' = "none"
            /\ depth' = depth + 1
            /\ pc' = AfterAlertPc(pc)
            /\ UNCHANGED <<outcome, servedBy, reconns>>
    /\ UNCHANGED <<url, useCache, tbl, seq, cacheOpen, cache, critical, lastSl,
                   queryFailed, exitCode, acked, startedBoth>>
    /\ UNCHANGED <<kind, curW, success, res, startActive, result>>
    /\ UNCHANGED extVars

\* ------------------------------------------------- specification
Step ==
    \/ \E p \in Providers, ok \in BOOLEAN : ConnectProvider(p, ok)
    \/ \E open \in BOOLEAN : CtorFinish(open)
    \/ \E p \in Providers : WriteSkip(p)
    \/ \E p \in Providers, out \in WriteOutcomes, rc \in BOOLEAN :
         WriteAttempt(p, out, rc)
    \/ WriteFinish
    \/ ReadNoOptions
    \/ \E p \in Providers, out \in ReadOutcomes, rc \in BOOLEAN :
         ReadAttempt(p, out, rc)
    \/ \E qfail \in BOOLEAN : TotalFailureReadCache(qfail)
    \/ TotalFailureAlert
    \/ TotalFailureExit

Next ==
    \/ WriteBegin
    \/ ReadBegin
    \/ Step

Spec == Init /\ [][Next]_vars

\* The process is single-threaded and synchronous: a call that has begun
\* keeps running until it returns, raises or exits.
FairSpec == Spec /\ WF_vars(Step)


\* ============================================== Reconciliation Engine
\* runs of reconcile_databases by one process (the constructor's, and
\* later calls of the public method)
MaxRecRuns == 2
\* rows a provider's media_library may hold at start
MaxRecRows == 2
\* rows a provider's trips_config may hold at start
MaxRecTrips == 1
\* statements of reconciliation that may raise in one behaviour
MaxRecFaults == 1

\* what reconciliation never touches
recFrame == <<url, useCache, active, alerts, critical, lastSl, queryFailed,
              exitCode, acked, startedBoth, curW, attempt, success, res,
              result, servedBy, depth, execs, reconns, retryOf, lastExec,
              lookup, restarts, auxVars>>

Rows(t, p) == IF t = "media_library" THEN tbl[p] ELSE trips[p]

OtherProvider(p) == IF p = "A" THEN "B" ELSE "A"

\* lines 285-302: a query that raises is logged and leaves max_x = 0
QueryMax(rows, ok) == IF ok THEN MaxSlNo(rows) ELSE 0

\* mutant: the comparison is the wrong way round
LeaderOfReversed(ma, mb) == IF ma < mb THEN "A" ELSE "B"

\* lines 310-323: the provider with the larger max(sl_no) leads
LeaderOf(ma, mb) == IF ma > mb THEN "A" ELSE "B"

\* a set of rows as the list ORDER BY sl_no ASC returns
RECURSIVE BySlNo(_)
BySlNo(S) ==
    IF S = {} THEN <<>>
    ELSE LET m == CHOOSE r \in S : \A q \in S : r[1] <= q[1]
         IN <<m>> \o BySlNo(S \ {m})

\* mutant: the fetch includes the row at the lagger's max(sl_no)
MissingRowsInclusive(rows, lagMax) == BySlNo({r \in rows : r[1] >= lagMax})

\* line 329: SELECT * FROM t WHERE sl_no > lagging_max ORDER BY sl_no ASC
MissingRows(rows, lagMax) == BySlNo({r \in rows : r[1] > lagMax})

\* REPLACE INTO trips_config: name is the cache table's primary key
CacheReplaceByName(c, row) == {r \in c : r[2] # row[2]} \cup {row}

\* lines 346-350: every missing row is upserted into the cache table
RECURSIVE CacheUpsertAll(_, _, _)
CacheUpsertAll(t, c, rows) ==
    IF rows = <<>> THEN c
    ELSE CacheUpsertAll(t,
             IF t = "media_library" THEN CacheReplace(c, Head(rows))
             ELSE CacheReplaceByName(c, Head(rows)),
             Tail(rows))

\* the rows with which provider p starts: sl_no 1..n; `d`: Provider B's
\* records differ from Provider A's at equal sl_no
StartRows(p, n, d) == {<<i, IF d /\ p = "B" THEN 100 + i ELSE i>> : i \in 1..n}

\* The state at entry of __init__(use_local_cache=True), both URLs
\* configured, the two providers' tables possibly diverged, the cache empty.
RecInit ==
    /\ url = [p \in Providers |-> TRUE]
    /\ useCache = TRUE
    /\ active = AllFalse
    /\ \E d \in BOOLEAN :
         /\ \E na \in 0..MaxRecRows, nb \in 0..MaxRecRows :
              /\ tbl = [p \in Providers |->
                          StartRows(p, IF p = "A" THEN na ELSE nb, d)]
              /\ seq = [p \in Providers |-> (IF p = "A" THEN na ELSE nb) + 1]
         /\ \E ta \in 0..MaxRecTrips, tb \in 0..MaxRecTrips :
              /\ trips = [p \in Providers |->
                            StartRows(p, IF p = "A" THEN ta ELSE tb, d)]
              /\ tripSeq = [p \in Providers |-> (IF p = "A" THEN ta ELSE tb) + 1]
    /\ cache = {}
    /\ cacheTrips = {}
    /\ cacheOpen = FALSE
    /\ alerts = AllZero
    /\ critical = [emitted |-> FALSE, sl |-> Unknown]
    /\ lastSl = Unknown
    /\ queryFailed = FALSE
    /\ exitCode = -1
    /\ pc = "ctor_A"
    /\ kind = "none"
    /\ curW = 0
    /\ attempt = 0
    /\ success = AllFalse
    /\ res = [p \in Providers |-> NoRow]
    /\ startActive = AllFalse
    /\ outcome = "none"
    /\ result = NoRow
    /\ servedBy = "none"
    /\ depth = 0
    /\ execs = AllZero
    /\ reconns = AllZero
    /\ retryOf = "none"
    /\ lastExec = NoExec
    /\ acked = {}
    /\ startedBoth = FALSE
    /\ RecIdle
    /\ smtp \in SmtpStates


SyncPc(p) == IF p = "A" THEN "rec_sync_A" ELSE "rec_sync_B"
AfterSyncPc(p) == IF p = "A" THEN "rec_sync_B" ELSE "idle"

\* mutant: the pass ends with the table it has just handled
AfterTablePcAbort(t) == "idle"

\* lines 370-371: after media_library comes trips_config, then
\* _sync_sequences
AfterTablePc(t) == IF t = "media_library" THEN "rec_compare" ELSE "rec_sync_A"
AfterTable(t) == IF t = "media_library" THEN "trips_config" ELSE "none"

\* mutant: full reconciliation is attempted whatever the providers' state
FullReconcileAlways(act) == TRUE

\* line 363, negated: both providers are active
FullReconcile(act) == \A p \in Providers : act[p]

\* Entry of reconcile_databases (lines 360-366): with a provider offline it
\* goes straight to _sync_sequences, else to the first table.
RecEnter ==
    /\ recRun' = recRun + 1
    /\ recStart' = Snapshot
    /\ recCompared' = NoTableFlag
    /\ recMaxErr' = NoTableFlag
    /\ recLeader' = NoLeader
    /\ recFetched' = <<>>
    /\ recMissing' = <<>>
    /\ recErr' = NoTableFlag
    /\ recInserted' = NoTableCount
    /\ recCached' = NoTableCount
    /\ recAlert' = NoTableCount
    /\ recSynced' = NoSync
    /\ startActive' = active
    /\ outcome' = "none"
    /\ IF FullReconcile(active)
       THEN recTable' = "media_library" /\ pc' = "rec_compare"
       ELSE recTable' = "none" /\ pc' = "rec_sync_A"

\* The rest of __init__ (lines 66-74) when the tables may have diverged: the
\* total-failure test, init_local_cache (`open`), and the entry of
\* reconcile_databases, which only a cached instance runs.
RecCtorFinish(open) ==
    /\ pc = "ctor_check"
    /\ kind' = "ctor"
    /\ IF NoProviderActive(active)
       THEN /\ pc' = "tf_read"
            /\ outcome' = "total_failure"
            /\ startActive' = active
            /\ UNCHANGED <<cacheOpen, startedBoth, recVars>>
       ELSE /\ cacheOpen' = (useCache /\ open)
            /\ startedBoth' = (\A p \in Providers : active[p])
            /\ IF useCache
               THEN RecEnter /\ UNCHANGED <<recClean, recFaults>>
               ELSE /\ pc' = "idle"
                    /\ outcome' = "returned"
                    /\ startActive' = active
                    /\ UNCHANGED recVars
    /\ UNCHANGED <<url, useCache, active, tbl, seq, cache, alerts, critical,
                   lastSl, queryFailed, exitCode, acked>>
    /\ UNCHANGED <<curW, attempt, success, res, result, servedBy, depth, execs,
                   reconns, retryOf, lastExec>>
    /\ UNCHANGED <<trips, tripSeq, cacheTrips, lookup, restarts, auxVars>>

\* A later call of reconcile_databases by the running process.
RecAgain ==
    /\ pc = "idle"
    /\ useCache
    /\ recRun >= 1
    /\ recRun < MaxRecRuns
    /\ kind' = "reconcile"
    /\ RecEnter
    /\ UNCHANGED <<recClean, recFaults>>
    /\ UNCHANGED <<tbl, seq, trips, tripSeq, cache, cacheTrips, cacheOpen>>
    /\ UNCHANGED recFrame

\* _reconcile_table up to the insert loop (lines 285-333): the two
\* MAX(sl_no) queries (`okA`, `okB`: the query did not raise), the equality
\* return, the choice of leader, and the fetch of the leader's rows above
\* the lagger's max (`okF`).
RecCompare(okA, okB, okF) ==
    /\ pc = "rec_compare"
    /\ LET t == recTable
           ma == QueryMax(Rows(t, "A"), okA)
           mb == QueryMax(Rows(t, "B"), okB)
           lead == LeaderOf(ma, mb)
           lagMax == IF ma < mb THEN ma ELSE mb
           missing == MissingRows(Rows(t, lead), lagMax)
           raised == (IF okA THEN 0 ELSE 1) + (IF okB THEN 0 ELSE 1)
                     + (IF ma # mb /\ ~okF THEN 1 ELSE 0)
       IN /\ recFaults + raised <= MaxRecFaults
          /\ recFaults' = recFaults + raised
          /\ recCompared' = [recCompared EXCEPT ![t] = TRUE]
          /\ recMaxErr' = [recMaxErr EXCEPT ![t] = ~okA \/ ~okB]
          /\ IF ma = mb
             THEN /\ recErr' = [recErr EXCEPT ![t] = ~okA \/ ~okB]
                  /\ recTable' = AfterTable(t)
                  /\ pc' = AfterTablePc(t)
                  /\ UNCHANGED <<recLeader, recFetched, recMissing>>
             ELSE /\ recLeader' = [recLeader EXCEPT ![t] = lead]
                  /\ IF ~okF \/ missing = <<>>
                     THEN /\ recErr' = [recErr EXCEPT
                                          ![t] = ~okA \/ ~okB \/ ~okF]
                          /\ recTable' = AfterTable(t)
                          /\ pc' = AfterTablePc(t)
                          /\ UNCHANGED <<recFetched, recMissing>>
                     ELSE /\ recErr' = [recErr EXCEPT ![t] = ~okA \/ ~okB]
                          /\ recFetched' = missing
                          /\ recMissing' = missing
                          /\ pc' = "rec_insert"
                          /\ UNCHANGED recTable
    /\ UNCHANGED <<recRun, recInserted, recCached, recAlert, recSynced,
                   recStart, recClean>>
    /\ UNCHANGED <<tbl, seq, trips, tripSeq, cache, cacheTrips, cacheOpen,
                   kind, startActive, outcome>>
    /\ UNCHANGED recFrame

\* mutant: the cache block and the alert follow the first inserted row
AfterInsertPcEager(rest) == "rec_cache"

\* lines 342-345: the insert loop goes on while rows are left (`rest`), and
\* only then comes the cache block
AfterInsertPc(rest) == IF rest = <<>> THEN "rec_cache" ELSE "rec_insert"

\* One turn of the insert loop (lines 342-343): the next missing row goes
\* into the lagger with its sl_no; an INSERT that raises (`ok` false) ends
\* the table in the except branch of line 357.
RecInsert(ok) ==
    /\ pc = "rec_insert"
    /\ recMissing # <<>>
    /\ ok \/ recFaults < MaxRecFaults
    /\ recFaults' = recFaults + (IF ok THEN 0 ELSE 1)
    /\ LET t == recTable
           lag == OtherProvider(recLeader[t])
           row == Head(recMissing)
       IN IF ok
          THEN /\ IF t = "media_library"
                  THEN /\ tbl' = [tbl EXCEPT ![lag] = @ \cup {row}]
                       /\ UNCHANGED trips
                  ELSE /\ trips' = [trips EXCEPT ![lag] = @ \cup {row}]
                       /\ UNCHANGED tbl
               /\ recInserted' = [recInserted EXCEPT ![t] = @ + 1]
               /\ recMissing' = Tail(recMissing)
               /\ pc' = AfterInsertPc(Tail(recMissing))
               /\ UNCHANGED <<recErr, recTable>>
          ELSE /\ recErr' = [recErr EXCEPT ![t] = TRUE]
               /\ recMissing' = <<>>
               /\ recTable' = AfterTable(t)
               /\ pc' = AfterTablePc(t)
               /\ UNCHANGED <<tbl, trips, recInserted>>
    /\ UNCHANGED <<recRun, recCompared, recMaxErr, recLeader, recFetched,
                   recCached, recAlert, recSynced, recStart, recClean>>
    /\ UNCHANGED <<seq, tripSeq, cache, cacheTrips, cacheOpen, kind,
                   startActive, outcome>>
    /\ UNCHANGED recFrame

\* Lines 345-355: with a cache, every fetched row is upserted and the cache
\* committed (`ok` false: sqlite raised, nothing is committed and no alert
\* goes out); then the recovery alert, inside the same try block.
RecCacheUpsert(ok) ==
    /\ pc = "rec_cache"
    /\ (cacheOpen /\ ~ok) => recFaults < MaxRecFaults
    /\ recFaults' = recFaults + (IF cacheOpen /\ ~ok THEN 1 ELSE 0)
    /\ LET t == recTable
       IN /\ IF cacheOpen /\ ~ok
             THEN /\ recErr' = [recErr EXCEPT ![t] = TRUE]
                  /\ UNCHANGED <<cache, cacheTrips, recCached, recAlert>>
             ELSE /\ IF cacheOpen
                     THEN /\ cache' = IF t = "media_library"
                                      THEN CacheUpsertAll(t, cache, recFetched)
                                      ELSE cache
                          /\ cacheTrips' = IF t = "trips_config"
                                           THEN CacheUpsertAll(t, cacheTrips,
                                                               recFetched)
                                           ELSE cacheTrips
                          /\ recCached' = [recCached EXCEPT
                                             ![t] = Len(recFetched)]
                     ELSE UNCHANGED <<cache, cacheTrips, recCached>>
                  /\ recAlert' = [recAlert EXCEPT ![t] = @ + 1]
                  /\ recErr' = [recErr EXCEPT
                                  ![t] = @ \/ SendNotificationRaises(smtp)]
          /\ recTable' = AfterTable(t)
          /\ pc' = AfterTablePc(t)
    /\ UNCHANGED <<recRun, recCompared, recMaxErr, recLeader, recFetched,
                   recMissing, recInserted, recSynced, recStart, recClean>>
    /\ UNCHANGED <<tbl, seq, trips, tripSeq, cacheOpen, kind, startActive,
                   outcome>>
    /\ UNCHANGED recFrame

SyncOutcomes == {"ok", "fail_media", "fail_trips"}

\* One turn of the loop of _sync_sequences (lines 254-278) for provider p:
\* skipped when p is inactive; else media_library's counter, then
\* trips_config's, each set from its table; an exception (`out`) leaves the
\* counters not yet reached as they are.  After Provider B the call of
\* reconcile_databases returns.
RecSync(p, out) ==
    /\ pc = SyncPc(p)
    /\ (active[p] /\ out # "ok") => recFaults < MaxRecFaults
    /\ recFaults' = recFaults + (IF active[p] /\ out # "ok" THEN 1 ELSE 0)
    /\ IF active[p]
       THEN /\ seq' = IF out = "fail_media" THEN seq
                      ELSE [seq EXCEPT ![p] = SyncedCounter(tbl[p], @)]
            /\ tripSeq' = IF out = "ok"
                          THEN [tripSeq EXCEPT ![p] = SyncedCounter(trips[p], @)]
                          ELSE tripSeq
            /\ recSynced' = [recSynced EXCEPT ![p] = out]
       ELSE UNCHANGED <<seq, tripSeq, recSynced>>
    /\ pc' = AfterSyncPc(p)
    /\ IF p = "B"
       THEN /\ outcome' = "returned"
            /\ recClean' = /\ \A t \in Tables : ~recErr[t]
                           /\ \A q \in Providers :
                                active[q] => recSynced'[q] = "ok"
       ELSE UNCHANGED <<outcome, recClean>>
    /\ UNCHANGED <<recRun, recTable, recCompared, recMaxErr, recLeader,
                   recFetched, recMissing, recErr, recInserted, recCached,
                   recAlert, recStart>>
    /\ UNCHANGED <<tbl, trips, cache, cacheTrips, cacheOpen, kind, startActive>>
    /\ UNCHANGED recFrame

RecNext ==
    \/ \E p \in Providers, ok \in BOOLEAN : ConnectProvider(p, ok)
    \/ \E open \in BOOLEAN : RecCtorFinish(open)
    \/ \E qfail \in BOOLEAN : TotalFailureReadCache(qfail)
    \/ TotalFailureAlert
    \/ TotalFailureExit
    \/ \E okA \in BOOLEAN, okB \in BOOLEAN, okF \in BOOLEAN :
         RecCompare(okA, okB, okF)
    \/ \E ok \in BOOLEAN : RecInsert(ok)
    \/ \E ok \in BOOLEAN : RecCacheUpsert(ok)
    \/ \E p \in Providers, out \in SyncOutcomes : RecSync(p, out)
    \/ RecAgain

\* Construction of a cached instance over possibly diverged providers, and
\* one further run of reconcile_databases.
RecSpec == RecInit /\ [][RecNext]_vars


\* ============================================== process restart
\* restarts of the process in one behaviour
MaxRestarts == 1

\* The process ends (it returned to its caller's top level, or sys.exit ran)
\* and a new one is constructed with the same configuration.  The provider
\* tables and counters live on the servers and the cache tables in the file
\* Data/local_cache.db (line 376), so they are what the new process finds;
\* flags, connections, cursors and locals start afresh (lines 56-63).
Restart ==
    /\ pc \in {"idle", "exited"}
    /\ restarts < MaxRestarts
    /\ restarts' = restarts + 1
    /\ active' = AllFalse
    /\ cacheOpen' = FALSE
    /\ alerts' = AllZero
    /\ critical' = [emitted |-> FALSE, sl |-> Unknown]
    /\ lastSl' = Unknown
    /\ queryFailed' = FALSE
    /\ exitCode' = -1
    /\ pc' = "ctor_A"
    /\ kind' = "none"
    /\ attempt' = 0
    /\ success' = AllFalse
    /\ res' = [p \in Providers |-> NoRow]
    /\ startActive' = AllFalse
    /\ outcome' = "none"
    /\ result' = NoRow
    /\ servedBy' = "none"
    /\ depth' = 0
    /\ execs' = AllZero
    /\ reconns' = AllZero
    /\ retryOf' = "none"
    /\ lastExec' = NoExec
    /\ startedBoth' = FALSE
    /\ recRun' = 0
    /\ recTable' = "none"
    /\ recCompared' = NoTableFlag
    /\ recMaxErr' = NoTableFlag
    /\ recLeader' = NoLeader
    /\ recFetched' = <<>>
    /\ recMissing' = <<>>
    /\ recErr' = NoTableFlag
    /\ recInserted' = NoTableCount
    /\ recCached' = NoTableCount
    /\ recAlert' = NoTableCount
    /\ recSynced' = NoSync
    /\ recStart' = Snapshot
    /\ recClean' = FALSE
    /\ lookup' = NoLookup
    /\ UNCHANGED <<url, useCache, tbl, seq, trips, tripSeq, cache, cacheTrips,
                   curW, acked, recFaults>>
    /\ UNCHANGED auxVars

\* A cached instance, both URLs configured, over providers that start equal
RestartInit == Init /\ useCache /\ url = [p \in Providers |-> TRUE]

RestartNext ==
    \/ \E p \in Providers, ok \in BOOLEAN : ConnectProvider(p, ok)
    \/ \E open \in BOOLEAN : RecCtorFinish(open)
    \/ \E okA \in BOOLEAN, okB \in BOOLEAN, okF \in BOOLEAN :
         RecCompare(okA, okB, okF)
    \/ \E ok \in BOOLEAN : RecInsert(ok)
    \/ \E ok \in BOOLEAN : RecCacheUpsert(ok)
    \/ \E p \in Providers, out \in SyncOutcomes : RecSync(p, out)
    \/ WriteBegin
    \/ \E p \in Providers : WriteSkip(p)
    \/ \E p \in Providers, out \in WriteOutcomes, rc \in BOOLEAN :
         WriteAttempt(p, out, rc)
    \/ WriteFinish
    \/ \E qfail \in BOOLEAN : TotalFailureReadCache(qfail)
    \/ TotalFailureAlert
    \/ TotalFailureExit
    \/ Restart

\* Processes of a cached instance, one after the other, each constructed
\* (with reconciliation) and then writing.
RestartSpec == RestartInit /\ [][RestartNext]_vars


\* ============================================== cache-first lookups
\* file_exists_by_name, file_exists_by_hash, get_file_by_hash, get_trips
LookupOps == {"exists_by_name", "exists_by_hash", "get_by_hash", "get_trips"}

\* the two that answer from the cache whether or not it holds the record
ExistsOps == {"exists_by_name", "exists_by_hash"}

\* the records a lookup may ask for: the one the tables start with (id 0)
\* and one they do not hold
LookupKeys == {0, 1}

\* what the SELECT of lookup `op` finds in a set of media_library rows and a
\* set of trips_config rows: a record with the key, or any trip
Found(op, key, media, trip) ==
    IF op = "get_trips" THEN trip # {} ELSE \E r \in media : r[2] = key

\* mutant: an open cache is trusted even when its query raised
UseCacheAnswerDespiteError(open, raised, op, hit) == open /\ (op \in ExistsOps \/ hit)

\* The lookup returns from its cache branch: the cursor is set, the query did
\* not raise, and (lines 505-509, 524-526) the operation is an exists test,
\* or (lines 544-545, 583-584) the cache produced a row.
UseCacheAnswer(open, raised, op, hit) ==
    open /\ ~raised /\ (op \in ExistsOps \/ hit)

\* The cache branch of a lookup and, when it does not return, the call of
\* execute_query (the read executor) that follows it.  `raised`: the cache
\* query raised; the except branch logs and falls through.  For
\* file_exists_by_name the name has no .jpg/.jpeg variant, so one query is
\* issued.
LookupBegin(op, key, raised) ==
    /\ pc = "idle"
    /\ lookup = NoLookup
    /\ LET hit == Found(op, key, cache, cacheTrips)
       IN IF UseCacheAnswer(cacheOpen, raised, op, hit)
          THEN /\ lookup' = [op |-> op, key |-> key, source |-> "cache",
                             answer |-> hit,
                             cacheRaised |-> cacheOpen /\ raised]
               /\ kind' = "lookup"
               /\ outcome' = "returned"
               /\ UNCHANGED <<pc, startActive, attempt, success, res, result,
                              servedBy, depth, execs, reconns, retryOf,
                              lastExec>>
          ELSE /\ lookup' = [op |-> op, key |-> key, source |-> "pending",
                             answer |-> FALSE,
                             cacheRaised |-> cacheOpen /\ raised]
               /\ kind' = "read"
               /\ startActive' = active
               /\ attempt' = 0
               /\ success' = AllFalse
               /\ res' = [p \in Providers |-> NoRow]
               /\ outcome' = "none"
               /\ result' = NoRow
               /\ servedBy' = "none"
               /\ depth' = 0
               /\ execs' = AllZero
               /\ reconns' = AllZero
               /\ retryOf' = "none"
               /\ lastExec' = NoExec
               /\ pc' = "read"
    /\ UNCHANGED <<url, useCache, active, tbl, seq, cacheOpen, cache, alerts,
                   critical, lastSl, queryFailed, exitCode, acked, startedBoth,
                   curW>>
    /\ UNCHANGED <<trips, tripSeq, cacheTrips, recVars, restarts, auxVars>>

\* what the read executor hands back: the row found on the provider that
\* served the query; None when its loop ended without a result
CloudAnswer(op, key, p) ==
    IF p = "none" THEN FALSE ELSE Found(op, key, tbl[p], trips[p])

\* execute_query has returned to the lookup, which answers from its result
\* (lines 513-517, 531-533, 549-552, 588-591)
LookupFinish ==
    /\ pc = "idle"
    /\ lookup.source = "pending"
    /\ kind = "read"
    /\ outcome = "returned"
    /\ lookup' = [lookup EXCEPT !.source = "cloud",
                                !.answer = CloudAnswer(lookup.op, lookup.key,
                                                       servedBy)]
    /\ kind' = "lookup"
    /\ UNCHANGED <<url, useCache, active, tbl, seq, cacheOpen, cache, alerts,
                   critical, lastSl, queryFailed, exitCode, acked, startedBoth,
                   pc>>
    /\ UNCHANGED <<curW, attempt, success, res, startActive, outcome, result,
                   servedBy, depth, execs, reconns, retryOf, lastExec>>
    /\ UNCHANGED <<trips, tripSeq, cacheTrips, recVars, restarts, auxVars>>

LookupInit == Init /\ url = [p \in Providers |-> TRUE]

LookupNext ==
    \/ \E p \in Providers, ok \in BOOLEAN : ConnectProvider(p, ok)
    \/ \E open \in BOOLEAN : CtorFinish(open)
    \/ \E op \in LookupOps, key \in LookupKeys, raised \in BOOLEAN :
         LookupBegin(op, key, raised)
    \/ ReadNoOptions
    \/ \E p \in Providers, out \in ReadOutcomes, rc \in BOOLEAN :
         ReadAttempt(p, out, rc)
    \/ LookupFinish
    \/ \E qfail \in BOOLEAN : TotalFailureReadCache(qfail)
    \/ TotalFailureAlert
    \/ TotalFailureExit

\* Construction of an instance, both URLs configured, and one cache-first
\* lookup; the cache file may hold fewer records than the providers.
LookupSpec == LookupInit /\ [][LookupNext]_vars


\* ============================================== file_exists_by_name
\* A filename is a stem and an extension, <stem>.<ext>.  The letters of a
\* stem: an ASCII letter in its two cases ("a", "A") and a non-ASCII letter
\* in its two cases ("e9" for U+00E9, "c9" for U+00C9).
MaxStemLen == 1
\* records in the table a lookup consults
MaxStored == 1

Letters == {"a", "A", "e9", "c9"}
Exts == {"jpg", "JPG", "jpeg", "JPEG", "png"}

Stems == UNION {[1..n -> Letters] : n \in 0..MaxStemLen}
Names == [stem : Stems, ext : Exts]

\* lower case of an extension; the extensions are ASCII
LowerExt(e) ==
    IF e \in {"jpg", "JPG"} THEN "jpg"
    ELSE IF e \in {"jpeg", "JPEG"} THEN "jpeg"
    ELSE e

\* str.lower() of Python and LOWER of a UTF-8 PostgreSQL database
UnicodeLowerLetter(c) ==
    IF c = "A" THEN "a" ELSE IF c = "c9" THEN "e9" ELSE c

\* LOWER of SQLite: ASCII letters only
AsciiLowerLetter(c) == IF c = "A" THEN "a" ELSE c

\* LOWER(x) as the provider evaluates it
PgLower(n) == [stem |-> [i \in DOMAIN n.stem |-> UnicodeLowerLetter(n.stem[i])],
               ext |-> LowerExt(n.ext)]

\* LOWER(x) as the cache evaluates it
SqliteLower(n) == [stem |-> [i \in DOMAIN n.stem |-> AsciiLowerLetter(n.stem[i])],
                   ext |-> LowerExt(n.ext)]

SqlLower(via, n) == IF via = "cache" THEN SqliteLower(n) ELSE PgLower(n)

\* lines 495-501: the name itself and, for a .jpg / .jpeg name (tested on
\* filename.lower()), the two spellings of the other extension
FilenamesToCheck(q) ==
    IF LowerExt(q.ext) = "jpg"
    THEN {q, [stem |-> q.stem, ext |-> "jpeg"], [stem |-> q.stem, ext |-> "JPEG"]}
    ELSE IF LowerExt(q.ext) = "jpeg"
    THEN {q, [stem |-> q.stem, ext |-> "jpg"], [stem |-> q.stem, ext |-> "JPG"]}
    ELSE {q}

\* lines 503-517: true when some candidate matches a stored filename under
\* `LOWER(filename) = LOWER(?)`, evaluated by the cache (`via` = "cache")
\* or by a provider ("cloud")
NameExists(via, stored, q) ==
    \E f \in FilenamesToCheck(q) : \E n \in stored :
        SqlLower(via, n) = SqlLower(via, f)

\* file_exists_by_name(q) over a table holding the filenames `stored`; the
\* call observed is the first of the process
FileExistsByName(via, stored, q) ==
    /\ nameLookup = NoNameLookup
    /\ nameLookup' = [via |-> via, stored |-> stored, q |-> q,
                      answer |-> NameExists(via, stored, q)]
    /\ UNCHANGED <<url, useCache, active, tbl, seq, cacheOpen, cache, alerts,
                   critical, lastSl, queryFailed, exitCode, pc, acked,
                   startedBoth>>
    /\ UNCHANGED opVars
    /\ UNCHANGED <<trips, tripSeq, cacheTrips, recVars, lookup, restarts,
                   connCall, smtp, thr, sync, albumVars>>

\* the tables of at most MaxStored filenames
StoredSets ==
    UNION {{{f[i] : i \in 1..n} : f \in [1..n -> Names]} : n \in 0..MaxStored}

NameInit == Init /\ useCache /\ url = [p \in Providers |-> TRUE] /\ tbl["A"] = {}

NameNext ==
    \E via \in {"cache", "cloud"}, stored \in StoredSets, q \in Names :
        FileExistsByName(via, stored, q)

\* file_exists_by_name applied to every small table and query
NameSpec == NameInit /\ [][NameNext]_vars


\* ============================================== _reconnect_provider
\* what the body of the try block does: all of it succeeds, or _parse_url,
\* pg8000.dbapi.connect or the assignment of autocommit raises
ConnOutcomes == {"ok", "parse_error", "connect_error", "autocommit_error"}

\* mutant: True is returned once a connection object exists
ReconnectReturnOnConnect(hasUrl, out) ==
    hasUrl /\ out \in {"ok", "autocommit_error"}

\* lines 101-127: True from the end of the try block, False from the except
\* branch and when the URL is not configured
ReconnectReturn(hasUrl, out) == hasUrl /\ out = "ok"

\* A call of _reconnect_provider(p).  The exception of any statement of the
\* try block is caught by `except Exception` (lines 109, 122), so the call
\* always returns.
ReconnectCall(p, out) ==
    /\ pc = "ctor_A"
    /\ active' = IF url[p] THEN ReconnectProvider(active, p, out = "ok")
                 ELSE active
    /\ connCall' = [p |-> p, out |-> out,
                    ret |-> ReconnectReturn(url[p], out),
                    raised |-> FALSE,
                    autocommit |-> url[p] /\ out = "ok"]
    /\ UNCHANGED <<url, useCache, tbl, seq, cacheOpen, cache, alerts, critical,
                   lastSl, queryFailed, exitCode, pc, acked, startedBoth>>
    /\ UNCHANGED opVars
    /\ UNCHANGED <<trips, tripSeq, cacheTrips, recVars, lookup, restarts,
                   nameLookup, smtp, thr, sync, albumVars>>

ConnNext == \E p \in Providers, out \in ConnOutcomes : ReconnectCall(p, out)

\* Calls of _reconnect_provider, one after the other, from the state in
\* which __init__ makes the first.
ConnSpec == Init /\ [][ConnNext]_vars


\* ============================================== notification failures
\* A cached instance with both URLs configured whose mail server delivers,
\* fails or is not configured.
AlertInit ==
    /\ InitAnyMail
    /\ useCache
    /\ url = [p \in Providers |-> TRUE]
    /\ smtp \in SmtpStates

\* The reads and writes of such a process.
AlertSpec == AlertInit /\ [][Next]_vars


\* ================================================================ claims
TotalFailureStates == {"tf_read", "tf_alert", "tf_exit", "exited"}
WriteReturned == pc = "idle" /\ kind = "write" /\ outcome = "returned"
WriteEnded == kind = "write" /\ pc \in {"idle"} \cup TotalFailureStates
ReadEnded == kind = "read" /\ pc \in {"idle"} \cup TotalFailureStates

\* C1 as stated: a mirrored write that returns normally has been applied on
\* every provider that was active when the call began.
C1_AppliedOnAllStartActive ==
    WriteReturned => \A p \in Providers : startActive[p] => Applied(p, curW)

\* C1 amended: a mirrored write that returns normally has been applied on
\* every provider that was active when the call began and is still active
\* when it returns, of which there is at least one; a provider active at the
\* start on which it was not applied has been marked inactive and alerted.
C1_AppliedOnSurvivors ==
    WriteReturned =>
        /\ \A p \in Providers : startActive[p] /\ active[p] => Applied(p, curW)
        /\ \E p \in Providers : startActive[p] /\ active[p] /\ Applied(p, curW)
        /\ \A p \in Providers :
             startActive[p] /\ ~Applied(p, curW) => ~active[p] /\ alerts[p] >= 1

\* C1 witness: both providers active at the start, the write returned, and
\* only Provider B holds it.
C1_Witness ==
    /\ WriteReturned
    /\ startActive["A"] /\ startActive["B"]
    /\ ~Applied("A", curW) /\ Applied("B", curW)

\* C2 as stated: with both providers active at the start, every write that
\* returned success is in both providers' tables at the end of the sequence.
C2_AckedOnBoth ==
    (pc = "idle" /\ startedBoth) =>
        \A w \in acked : \A p \in Providers : Applied(p, w)

\* C2 amended: with both providers active at the start, every write that
\* returned success is, at the end of the sequence, in the table of every
\* provider still marked active, and in at least one provider's table.
C2_AckedOnActive ==
    (pc \in {"idle", "exited"} /\ startedBoth) =>
        \A w \in acked :
            /\ \A p \in Providers : active[p] => Applied(p, w)
            /\ \E p \in Providers : Applied(p, w)

\* C2 witness: two writes returned success and one of them is missing on a
\* provider.
C2_Witness ==
    /\ pc = "idle" /\ startedBoth
    /\ Cardinality(acked) >= 2
    /\ \E w \in acked, p \in Providers : ~Applied(p, w)

\* the watermark the critical alert has to carry
ExpectedWatermark == IF cacheOpen /\ ~queryFailed THEN CacheMax ELSE Unknown

C3_TotalFailureInv ==
    /\ pc = "idle" => \E p \in Providers : active[p]
    /\ pc \in TotalFailureStates =>
         outcome = "total_failure" /\ \A p \in Providers : ~active[p]
    /\ pc \in {"tf_alert", "tf_exit", "exited"} => lastSl = ExpectedWatermark
    /\ critical.emitted <=> pc \in {"tf_exit", "exited"}
    /\ critical.emitted => critical.sl = ExpectedWatermark
    /\ exitCode = (IF pc = "exited" THEN 1 ELSE -1)

C3_TotalFailureOrder ==
    /\ pc = "tf_read" => pc' = "tf_alert"
    /\ pc = "tf_alert" => pc' = "tf_exit"
    /\ pc = "tf_exit" => pc' = "exited"
    /\ pc # "exited"
    /\ (outcome' = "total_failure" /\ outcome # "total_failure") => pc' = "tf_read"

C4_WriteTotalFailure ==
    (WriteEnded /\ \A p \in Providers : startActive[p] => ~active[p]) =>
        /\ outcome = "total_failure"
        /\ pc \in TotalFailureStates
        /\ curW \notin acked
        /\ result = NoRow

\* C4 witness: a write that began with both providers active ended in exit.
C4_Witness ==
    /\ kind = "write" /\ pc = "exited"
    /\ startActive["A"] /\ startActive["B"]
    /\ execs["A"] >= 1 /\ execs["B"] >= 1

\* C5: a write ends raising exactly when a provider is still marked active
\* and did not apply the statement; on a normal return every provider still
\* marked active has applied it.
C5_MirroredWriteFailure ==
    WriteEnded =>
        /\ outcome = "raised" <=> \E p \in Providers : active[p] /\ ~success[p]
        /\ outcome = "returned" =>
             \A p \in Providers : active[p] => success[p] /\ Applied(p, curW)

\* C5 witness: a degraded write returned with Provider B active and applied.
C5_Witness ==
    /\ WriteReturned
    /\ ~startActive["A"] /\ active["B"] /\ success["B"] /\ execs["B"] = 2

\* C6: a read ends returning the result of a provider that was active at
\* its start and executed the statement, or, when every provider active at
\* its start failed during the call, in total failure; it never raises.
C6_ReadAvailability ==
    ReadEnded =>
        /\ outcome \in {"returned", "total_failure"}
        /\ outcome = "returned" =>
             /\ servedBy \in Providers
             /\ startActive[servedBy] /\ active[servedBy]
             /\ lastExec.p = servedBy /\ lastExec.out = "ok"
        /\ outcome = "total_failure" =>
             \A p \in Providers : ~active[p] /\ (startActive[p] => execs[p] >= 1)

\* C6 witness: a read returned from Provider B after Provider A failed in it.
C6_Witness ==
    /\ kind = "read" /\ pc = "idle" /\ outcome = "returned"
    /\ startActive["A"] /\ ~active["A"] /\ servedBy = "B"

\* C7 as stated: the retry after a successful reconnect runs on the
\* reconnected provider, and a read marks a provider inactive for a
\* transient error only after a reconnect attempt on it in that read.
C7_RetrySameProvider ==
    kind = "read" =>
        /\ lastExec.attempt = 1 => lastExec.p = lastExec.prev
        /\ (lastExec.out = "conn" /\ ~active[lastExec.p]) =>
             reconns[lastExec.p] >= 1

C8_ReadBounds ==
    kind = "read" =>
        /\ depth <= 2
        /\ depth = Cardinality({p \in Providers : startActive[p] /\ ~active[p]})
        /\ execs["A"] + execs["B"] <= 4
        /\ \A p \in Providers : startActive[p] /\ ~active[p] => alerts[p] >= 1
        /\ pc = "idle" => outcome = "returned"
        /\ pc \in TotalFailureStates => outcome = "total_failure"

\* C8: a read re-invokes itself once per provider it marks inactive (at
\* most twice), executes at most four statements, alerts for each provider
\* it marks, and always ends: in a returned result or in total failure.
C8_ReadTerminates ==
    /\ []C8_ReadBounds
    /\ (pc = "read") ~> (pc \in {"idle", "exited"})

\* C8 witness: a read marked both providers inactive and ended in exit.
C8_Witness ==
    /\ kind = "read" /\ pc = "exited"
    /\ depth = 2 /\ execs["A"] + execs["B"] = 4

ConnectDone(p) == pc \notin (IF p = "A" THEN {"ctor_A"} ELSE {"ctor_A", "ctor_B"})

\* C9: after the constructor's connection attempt on a provider, a false
\* active flag of it is never set back to true, and the number of active
\* providers never grows.
C9_DegradedOneWay ==
    [][\A p \in Providers : (ConnectDone(p) /\ ~active[p]) => ~active'[p]]_vars

\* C9 witness: with Provider A inactive, a later read reconnected Provider B.
C9_Witness ==
    /\ kind = "read" /\ pc = "idle"
    /\ url["A"] /\ ~startActive["A"] /\ ~active["A"]
    /\ reconns["B"] >= 1 /\ active["B"]

C10_AlertStep ==
    \A p \in Providers :
        /\ alerts'[p] # alerts[p] =>
             /\ alerts'[p] = alerts[p] + 1
             /\ ~active'[p]
             /\ active[p] \/ pc = CtorPc(p)
        /\ (active[p] /\ ~active'[p]) => alerts'[p] = alerts[p] + 1

\* C10: the single-provider-down alert goes out exactly once when a
\* provider is marked inactive (by a failed operation, a failed inline
\* reconnect or a failed initial connection) and never again afterwards.
C10_AlertOncePerTransition ==
    /\ [](\A p \in Providers : alerts[p] <= 1)
    /\ [][C10_AlertStep]_vars

\* C10 witness: with Provider A down and alerted once, a later write ran on
\* Provider B alone and returned.
C10_Witness ==
    /\ WriteReturned
    /\ url["A"] /\ ~startActive["A"] /\ alerts["A"] = 1
    /\ execs["A"] = 0 /\ execs["B"] >= 1


C11_DegradedWriteInv ==
    (WriteEnded /\ alerts["A"] >= 1 /\ ~startActive["A"] /\ res["B"] # NoRow) =>
        /\ outcome = "returned"
        /\ curW \in acked
        /\ result = res["B"]
        /\ execs["A"] = 0
        /\ ~Applied("A", curW) /\ Applied("B", curW)

TableDone(t) == recCompared[t] /\ recTable # t

StartOf(t, p) == IF t = "media_library" THEN recStart.tbl[p] ELSE recStart.trips[p]

SlNos(rows) == {r[1] : r \in rows}

C13_Convergence ==
    \A t \in Tables : \A lead \in Providers :
        LET lag == OtherProvider(lead)
            n == MaxSlNo(StartOf(t, lead))
            m == MaxSlNo(StartOf(t, lag))
        IN (/\ TableDone(t) /\ FullReconcile(active) /\ ~recErr[t]
            /\ m < n
            /\ SlNos(StartOf(t, lead)) = 1..n
            /\ SlNos(StartOf(t, lag)) = 1..m) =>
               /\ SlNos(Rows(t, lag)) = 1..n
               /\ Rows(t, lag) \ StartOf(t, lag) =
                      {r \in StartOf(t, lead) : r[1] > m}
               /\ StartOf(t, lag) \subseteq Rows(t, lag)
               /\ Rows(t, lead) = StartOf(t, lead)
               /\ MaxSlNo(Rows(t, "A")) = MaxSlNo(Rows(t, "B"))

\* C13 witness: Provider B led media_library by one row and Provider A led
\* trips_config; both laggers received the missing row, with records that
\* differ between the providers at equal sl_no.
C13_Witness ==
    /\ pc = "idle" /\ recRun = 1
    /\ recLeader["media_library"] = "B" /\ recInserted["media_library"] = 1
    /\ recLeader["trips_config"] = "A" /\ recInserted["trips_config"] = 1
    /\ ~recErr["media_library"] /\ ~recErr["trips_config"]
    /\ tbl["A"] = {<<1, 1>>, <<2, 102>>}
    /\ trips["B"] = {<<1, 1>>}

\* C14: when reconcile runs a second time with no write in between and no
\* statement of either run raises, no step of the second run changes a
\* provider table, a cache table or an auto-increment counter.
C14_Idempotent ==
    [][(recRun = 2 /\ recRun' = 2 /\ recFaults' = 0) =>
          /\ tbl' = tbl /\ trips' = trips
          /\ cache' = cache /\ cacheTrips' = cacheTrips
          /\ seq' = seq /\ tripSeq' = tripSeq]_vars

\* C14 witness: the first run copied rows into a provider and the cache,
\* the second run has returned, and nothing raised.
C14_Witness ==
    /\ pc = "idle" /\ recRun = 2 /\ recFaults = 0
    /\ FullReconcile(active)
    /\ cache # {}
    /\ recSynced = [p \in Providers |-> "ok"]
    /\ Snapshot = recStart

\* C15 (as claimed): a table whose max(sl_no) query raised is skipped: no
\* leader, no row inserted into a provider or the cache for it.
C15_FailedCompareSkips ==
    \A t \in Tables :
        (recCompared[t] /\ recMaxErr[t]) =>
            /\ recLeader[t] = "none"
            /\ recInserted[t] = 0
            /\ recCached[t] = 0

\* C17: after _sync_sequences has completed on an active provider, the next
\* sl_no its counter assigns for each replicated table is strictly greater
\* than every sl_no present in that table, rows copied by reconciliation
\* included.
C17_CounterAboveRows ==
    \A p \in Providers :
        (active[p] /\ recSynced[p] = "ok") =>
            /\ \A r \in tbl[p] : seq[p] > r[1]
            /\ \A r \in trips[p] : tripSeq[p] > r[1]

\* C17 witness: Provider B received two media_library rows from Provider A,
\* its counter stood at 1 before, and _sync_sequences completed on it.
C17_Witness ==
    /\ pc = "idle" /\ recRun = 1
    /\ recLeader["media_library"] = "A" /\ recInserted["media_library"] = 2
    /\ recStart.seq["B"] = 1
    /\ recSynced["B"] = "ok"
    /\ seq["B"] = 3

ExactlyOneActive == \E p \in Providers : active[p] /\ ~active[OtherProvider(p)]

\* C18: with exactly one provider active at startup, reconcile compares no
\* max(sl_no) and copies no row (provider tables and cache tables stay as
\* they were), the inactive provider's counters are untouched, and when
\* reconcile has returned _sync_sequences has run on the active provider,
\* setting its counters from its tables unless it raised.
C18_SoleProvider ==
    (recRun >= 1 /\ ExactlyOneActive) =>
        /\ \A t \in Tables :
             ~recCompared[t] /\ recInserted[t] = 0 /\ recCached[t] = 0
        /\ tbl = recStart.tbl /\ trips = recStart.trips
        /\ cache = recStart.cache /\ cacheTrips = recStart.cacheTrips
        /\ \A p \in Providers :
             ~active[p] =>
                 /\ recSynced[p] = "no"
                 /\ seq[p] = recStart.seq[p]
                 /\ tripSeq[p] = recStart.tripSeq[p]
        /\ pc = "idle" =>
             \A p \in Providers :
                 active[p] =>
                     /\ recSynced[p] # "no"
                     /\ recSynced[p] = "ok" =>
                          /\ seq[p] = SyncedCounter(tbl[p], recStart.seq[p])
                          /\ tripSeq[p] =
                                 SyncedCounter(trips[p], recStart.tripSeq[p])

\* C18 witness: only Provider B came up, the tables differ, reconcile has
\* returned with B's counters resynchronised and nothing copied.
C18_Witness ==
    /\ pc = "idle" /\ recRun = 1 /\ kind = "ctor"
    /\ ~active["A"] /\ active["B"]
    /\ MaxSlNo(tbl["A"]) = 2 /\ tbl["B"] = {}
    /\ recSynced = [p \in Providers |-> IF p = "B" THEN "ok" ELSE "no"]
    /\ seq["B"] = 2 /\ recStart.seq["B"] = 1

\* C16 (as claimed): while the process is up with a provider active, every
\* row of the cache tables is in the table of a currently active provider.
\* Rows are compared by record (the sl_no under which a provider holds the
\* record is left aside).
C16_CacheWithinCloud ==
    (pc = "idle" /\ ~NoProviderActive(active)) =>
        /\ \A r \in cache :
             \E p \in Providers : active[p] /\ \E q \in tbl[p] : q[2] = r[2]
        /\ \A r \in cacheTrips :
             \E p \in Providers : active[p] /\ \E q \in trips[p] : q[2] = r[2]

\* C19 (as claimed): with the cache open, whenever insert_file has returned
\* normally the cache holds the record it inserted.
C19_CachedOnReturn ==
    (WriteReturned /\ cacheOpen) => \E r \in cache : r[2] = curW

\* C20: for each of the four lookups, when the cache is absent or its query
\* raised, the lookup is issued through the read executor and the answer
\* returned is the one derived from the provider that served it; the cache
\* answers only when it is open and its query did not raise.
C20_CacheFallback ==
    lookup.op # "none" =>
        /\ lookup.source = "cache" => (cacheOpen /\ ~lookup.cacheRaised)
        /\ (~cacheOpen \/ lookup.cacheRaised) =>
               /\ lookup.source \in {"pending", "cloud"}
               /\ kind \in {"read", "lookup"}
               /\ pc \in {"read", "idle"} \cup TotalFailureStates
        /\ lookup.source = "pending" => kind = "read"
        /\ lookup.source = "cloud" =>
               /\ pc = "idle" /\ outcome = "returned"
               /\ servedBy # "none" => execs[servedBy] >= 1
               /\ lookup.answer =
                      CloudAnswer(lookup.op, lookup.key, servedBy)

\* C20 witness: the cache is open but holds no record, its query raised,
\* and file_exists_by_hash answered true from Provider B after Provider A
\* had failed.
C20_Witness ==
    /\ lookup.op = "exists_by_hash" /\ lookup.key = 0
    /\ cacheOpen /\ cache = {} /\ lookup.cacheRaised
    /\ lookup.source = "cloud" /\ lookup.answer
    /\ servedBy = "B" /\ ~active["A"]

\* ------------------------------------------------- name matching
SameLetters(a, b) ==
    /\ DOMAIN a = DOMAIN b
    /\ \A i \in DOMAIN a : UnicodeLowerLetter(a[i]) = UnicodeLowerLetter(b[i])

\* the filenames are equal ignoring letter case, possibly after exchanging
\* a trailing .jpg with .jpeg
RelatedNames(n, q) ==
    /\ SameLetters(n.stem, q.stem)
    /\ \/ LowerExt(n.ext) = LowerExt(q.ext)
       \/ {LowerExt(n.ext), LowerExt(q.ext)} = {"jpg", "jpeg"}

\* C21 (as claimed): file_exists_by_name(q) answers true exactly when the
\* table holds a filename equal to q ignoring letter case, or equal to it
\* after exchanging .jpg and .jpeg.
C21_FuzzyNameMatch ==
    nameLookup.via # "none" =>
        (nameLookup.answer <=>
             \E n \in nameLookup.stored : RelatedNames(n, nameLookup.q))

\* ------------------------------------------------- write attempts
C22_WriteBounds ==
    kind = "write" =>
        \A p \in Providers :
            /\ execs[p] <= 2 /\ reconns[p] <= 1
            /\ ~startActive[p] => execs[p] = 0
            /\ (startActive[p] /\ pc \notin {"write_A", "write_B"}) =>
                   execs[p] >= 1

\* one execution of the write's statement on provider p
C22_AttemptStep(p) ==
    (kind = "write" /\ execs'[p] = execs[p] + 1) =>
        /\ pc = WritePc(p) /\ active[p]
        /\ res'[p] # NoRow =>
               /\ pc' = AfterWritePc(p)
               /\ active' = active /\ alerts' = alerts /\ reconns' = reconns
        /\ res'[p] = NoRow =>
               \/ /\ attempt = 0 /\ attempt' = 1
                  /\ reconns'[p] = reconns[p] + 1
                  /\ active'[p] /\ alerts' = alerts
                  /\ pc' = pc
               \/ /\ ~active'[p]
                  /\ alerts'[p] = alerts[p] + 1
                  /\ pc' = AfterWritePc(p)
        /\ (attempt = 1 /\ res'[p] = NoRow) =>
               (~active'[p] /\ reconns' = reconns)

\* C22: in a write, a provider active at call start gets one or two
\* executions and at most one reconnect; a failed execution is followed
\* either by a successful reconnect and the retry on the same provider
\* (first attempt only), or by the provider being marked inactive with one
\* single-provider-down alert; a second failure never reconnects; and
\* Provider B is attempted whatever happened on Provider A.
C22_WriteAttempts ==
    /\ []C22_WriteBounds
    /\ [][\A p \in Providers : C22_AttemptStep(p)]_vars

\* C22 witness: Provider A failed, was reconnected, failed the retry and was
\* marked inactive with one alert; Provider B then applied the statement.
C22_Witness ==
    /\ WriteReturned /\ startedBoth
    /\ execs["A"] = 2 /\ reconns["A"] = 1
    /\ ~active["A"] /\ alerts["A"] = 1
    /\ execs["B"] = 1 /\ res["B"] # NoRow

\* C23: a call of _reconnect_provider(p) returns to its caller; when it
\* returns False the provider's flag is False afterwards; when it returns
\* True the flag is True and the connection made is in autocommit mode.
C23_ConnectContract ==
    connCall.p # "none" =>
        /\ ~connCall.raised
        /\ connCall.ret => (active[connCall.p] /\ connCall.autocommit)
        /\ ~connCall.ret => ~active[connCall.p]

\* C23 witness: Provider A was connected, and a later reconnect of it
\* failed in pg8000.dbapi.connect: False was returned and the flag cleared,
\* while Provider B stays connected.
C23_Witness ==
    /\ connCall.p = "A" /\ connCall.out = "connect_error"
    /\ ~connCall.ret /\ ~active["A"] /\ active["B"]

\* C24 (as claimed): a write that returns normally hands back Provider A's
\* result row when Provider A holds one, and otherwise Provider B's; when
\* Provider A ends the call inactive and Provider B returned a row, the
\* caller receives Provider B's row.
C24_ReturnedRows ==
    WriteReturned =>
        /\ res["A"] # NoRow => result = res["A"]
        /\ res["A"] = NoRow => result = res["B"]
        /\ (~active["A"] /\ res["B"] # NoRow) => result = res["B"]

\* ------------------------------------------------- notification failures
AlertEmitted ==
    \/ \E p \in Providers : alerts'[p] > alerts[p]
    \/ critical'.emitted /\ ~critical.emitted

\* C25: whatever the mail server does with a notification, no call of the
\* notifier ends a store operation with an exception: after a
\* single-provider-down alert the constructor, read or write goes on where
\* it goes on when the alert is delivered, and after the critical alert
\* the process exits with status 1.
C25_AlertFailureHarmless ==
    /\ [](pc # "raised")
    /\ [][AlertEmitted =>
            /\ pc' \in {"ctor_B", "ctor_check", "write_B", "write_end",
                        "read", "tf_exit"}
            /\ (critical'.emitted /\ ~critical.emitted) => pc' = "tf_exit"]_vars
    /\ [](pc = "exited" => (critical.emitted /\ exitCode = 1))

\* C25 witness: the mail server fails; Provider A went down during a write,
\* which returned from Provider B; then Provider B failed a read and the
\* process exited through the total-failure path.
C25_Witness ==
    /\ smtp = "down"
    /\ pc = "exited" /\ exitCode = 1 /\ critical.emitted
    /\ alerts = [p \in Providers |-> 1]
    /\ acked # {} /\ kind = "read"

\* ------------------------------------------------- cache upserts
CacheOf(t) == IF t = "media_library" THEN cache ELSE cacheTrips

\* the key of a cache row: sl_no for media_library, name for trips_config
CacheKey(t, r) == IF t = "media_library" THEN r[1] ELSE r[2]

UniqueKeys(t, c) ==
    \A r \in c : \A q \in c : CacheKey(t, r) = CacheKey(t, q) => r = q

\* the rows a provider holds, and the same records under the sl_no of
\* another row
UpsertCandidates(t) ==
    LET held == Rows(t, "A") \cup Rows(t, "B") \cup CacheOf(t)
    IN held \cup {<<r[1], q[2]>> : r \in held, q \in held}

C27_SameRowsAfterReconcile ==
    (/\ pc = "idle" /\ recRun >= 1
     /\ FullReconcile(active) /\ recClean /\ recFaults = 0) =>
        \A t \in Tables : Rows(t, "A") = Rows(t, "B")

\* reconcile_databases has returned to its caller
RecReturned == pc = "idle" /\ recRun >= 1

\* what holds of a pass in every state: nothing is raised to the caller;
\* with both providers active _sync_sequences starts only after both
\* tables were handled; the call returns with every active provider's
\* counters visited and the process not exited
C28_PassCompletes ==
    /\ pc # "raised"
    /\ (FullReconcile(active) /\ (pc \in {"rec_sync_A", "rec_sync_B"} \/ RecReturned)) =>
           \A t \in Tables : recCompared[t]
    /\ RecReturned =>
           /\ outcome = "returned" /\ exitCode = -1
           /\ \A p \in Providers : active[p] => recSynced[p] # "no"

\* the step at which the row fetch or an INSERT into the lagger raises
\* while table t is reconciled
C28_ErrorStep(t) ==
    /\ recTable = t /\ recFaults' > recFaults
    /\ \/ pc = "rec_insert"
       \/ pc = "rec_compare" /\ ~recMaxErr'[t]

\* C28: a failure while reconciling one table (row fetch or insertion into
\* the lagger) is confined to that table: the step that logs it moves on to
\* the other table or to the counter resync, leaves the providers active
\* and the cache open, and the pass then returns as any other: both tables
\* compared, every active provider's counters visited, no exception, no
\* exit.
C28_FailureConfined ==
    /\ []C28_PassCompletes
    /\ [][/\ C28_ErrorStep("media_library") =>
                /\ pc' = "rec_compare" /\ recTable' = "trips_config"
                /\ active' = active /\ cacheOpen' = cacheOpen
                /\ trips' = trips /\ cacheTrips' = cacheTrips
          /\ C28_ErrorStep("trips_config") =>
                /\ pc' = "rec_sync_A"
                /\ active' = active /\ cacheOpen' = cacheOpen
                /\ tbl' = tbl /\ cache' = cache]_vars

\* C28 witness: the first pass has returned; the second INSERT into
\* media_library's lagger raised after one row was copied, and trips_config
\* was still reconciled (one row copied) and both providers' counters
\* resynchronised.
C28_Witness ==
    /\ RecReturned /\ recRun = 1 /\ outcome = "returned"
    /\ recErr["media_library"] /\ ~recMaxErr["media_library"]
    /\ recInserted["media_library"] = 1 /\ recCached["media_library"] = 0
    /\ ~recErr["trips_config"] /\ recInserted["trips_config"] = 1
    /\ recSynced = [p \in Providers |-> "ok"]

\* the transfer of table t in the current pass, seen from any later state
\* of the pass: `missing0` are the leader's rows above the lagger's max at
\* the start, in ascending sl_no order, k of them inserted so far.  They
\* are strictly ascending and new to the lagger, the lagger holds its old
\* rows and the first k of them, and a reconcile that started now would
\* fetch exactly the rest.
C29_Transfer(t) ==
    LET lead == recLeader[t]
        lag == OtherProvider(lead)
        missing0 == MissingRows(StartOf(t, lead), MaxSlNo(StartOf(t, lag)))
        k == recInserted[t]
    IN /\ k <= Len(missing0)
       /\ \A i \in 1..Len(missing0) : \A j \in 1..Len(missing0) :
              i < j => missing0[i][1] < missing0[j][1]
       /\ \A i \in 1..k : missing0[i][1] \notin SlNos(StartOf(t, lag))
       /\ Rows(t, lag) = StartOf(t, lag) \cup {missing0[i] : i \in 1..k}
       /\ Cardinality(Rows(t, lag)) = Cardinality(StartOf(t, lag)) + k
       /\ Rows(t, lead) = StartOf(t, lead)
       /\ MissingRows(Rows(t, lead), MaxSlNo(Rows(t, lag))) =
              SubSeq(missing0, k + 1, Len(missing0))
       /\ (recTable = t /\ pc = "rec_insert") =>
              recMissing = SubSeq(missing0, k + 1, Len(missing0))

\* C29 (as claimed): in every state of a pass in which a transfer of table
\* t was begun, midway and after an INSERT that raised, the rows added to
\* the lagger are a prefix in sl_no order of the leader's missing rows,
\* none of them a duplicate, and a later reconcile would transfer exactly
\* the remaining rows.
C29_PrefixTransfer ==
    \A t \in Tables : recLeader[t] # "none" => C29_Transfer(t)

\* ------------------------------------------------- write fan-out order
\* a statement of the write is executed on provider p in this step
C30_Executes(p) == kind = "write" /\ execs'[p] > execs[p]

\* the step touches provider p: a statement, a reconnect, or a row
C30_Touches(p) ==
    \/ execs'[p] # execs[p] \/ reconns'[p] # reconns[p]
    \/ tbl'[p] # tbl[p] \/ seq'[p] # seq[p]

\* C30: a write fans out Provider A first, then Provider B: while Provider
\* A's block runs nothing has been executed on Provider B; a statement on
\* Provider A is executed only in A's block and one on Provider B only in
\* B's block, which is entered after A's attempts, reconnect and retry
\* included, are over; during B's block nothing on Provider A changes; and
\* no step executes a statement on both providers.
C30_SequentialFanOut ==
    /\ []((kind = "write" /\ pc = "write_A") =>
              (execs["B"] = 0 /\ reconns["B"] = 0))
    /\ [][/\ C30_Executes("A") => (pc = "write_A" /\ execs["B"] = 0)
          /\ C30_Executes("B") => (pc = "write_B" /\ pc' # "write_A")
          /\ ~(C30_Executes("A") /\ C30_Executes("B"))
          /\ (kind = "write" /\ pc = "write_B") => ~C30_Touches("A")
          /\ (kind = "write" /\ pc = "write_A") => ~C30_Touches("B")
          /\ (kind = "write" /\ pc = "write_B") => pc' # "write_A"]_vars

\* C30 witness: the write returned after Provider A failed, was
\* reconnected and applied the retry, and Provider B then applied it at
\* its first attempt.
C30_Witness ==
    /\ WriteReturned /\ startedBoth
    /\ execs["A"] = 2 /\ reconns["A"] = 1 /\ active["A"]
    /\ res["A"] # NoRow
    /\ execs["B"] = 1 /\ reconns["B"] = 0 /\ res["B"] # NoRow

\* ------------------------------------------------- concurrent callers
\* Two host threads call execute_query(is_write=False) on one instance.
\* The class holds no lock: the threads interleave between the statements
\* of lines 218-250.  One step is, as above, one cursor.execute with its
\* except branch; choosing the provider (lines 221-228) is a step of its
\* own, since the execute that follows blocks on the network.
threadFrame == <<url, useCache, tbl, seq, cacheOpen, cache, lastSl,
                 queryFailed, exitCode, acked, startedBoth, pc>>

\* a thread enters execute_query
\* the instance is constructed and the process has not entered
\* _handle_total_failure in its main thread
HostRunning == pc \in {"idle", "write_A", "write_B", "write_end"}

ThreadCall(th) ==
    /\ HostRunning
    /\ thr[th].pc = "out"
    /\ thr' = [thr EXCEPT ![th].pc = "options", ![th].attempt = 0]
    /\ UNCHANGED <<active, alerts, critical>>
    /\ UNCHANGED threadFrame
    /\ UNCHANGED opVars
    /\ UNCHANGED <<trips, tripSeq, cacheTrips, recVars, lookup, restarts,
                   nameLookup, connCall, smtp, sync, albumVars>>

\* lines 221-228: the options are built from the flags as they are now and
\* one is chosen; with none, _handle_total_failure is entered
ThreadOptions(th, p) ==
    /\ HostRunning
    /\ thr[th].pc = "options"
    /\ IF ReadOptions(active) = {}
       THEN /\ p = "A"
            /\ thr' = [thr EXCEPT ![th].pc = "tf", ![th].p = "none"]
       ELSE /\ p \in ReadOptions(active)
            /\ thr' = [thr EXCEPT ![th].pc = "exec", ![th].p = p]
    /\ UNCHANGED <<active, alerts, critical>>
    /\ UNCHANGED threadFrame
    /\ UNCHANGED opVars
    /\ UNCHANGED <<trips, tripSeq, cacheTrips, recVars, lookup, restarts,
                   nameLookup, connCall, smtp, sync, albumVars>>

\* lines 229-250 in thread th, on the provider it chose: return, or
\* reconnect and `continue`, or clear the flag, alert and re-invoke
ThreadExec(th, out, rc) ==
    /\ HostRunning
    /\ thr[th].pc = "exec"
    /\ out # "ok" => thr[th].execs < MaxThreadExecs
    /\ LET p == thr[th].p
           att == thr[th].attempt
       IN IF out = "ok"
          THEN /\ thr' = [thr EXCEPT ![th].pc = "returned"]
               /\ UNCHANGED <<active, alerts>>
          ELSE IF ShouldReconnect(att, out) /\ rc
          THEN /\ active' = ReconnectProvider(active, p, TRUE)
               /\ thr' = [thr EXCEPT ![th].pc = IF att = 0 THEN "options"
                                                ELSE "returned",
                                     ![th].attempt = 1,
                                     ![th].execs = @ + 1]
               /\ UNCHANGED alerts
          ELSE /\ active' = MarkInactive(
                               IF ShouldReconnect(att, out)
                               THEN ReconnectProvider(active, p, FALSE)
                               ELSE active, p)
               /\ alerts' = HandleSingleFailure(alerts, p)
               /\ thr' = [thr EXCEPT ![th].pc = "options",
                                     ![th].attempt = 0,
                                     ![th].execs = @ + 1]
    /\ UNCHANGED critical
    /\ UNCHANGED threadFrame
    /\ UNCHANGED opVars
    /\ UNCHANGED <<trips, tripSeq, cacheTrips, recVars, lookup, restarts,
                   nameLookup, connCall, smtp, sync, albumVars>>

\* _handle_total_failure in thread th (lines 147-160): the critical alert,
\* then sys.exit(1), which ends the calling thread
ThreadTotalFailure(th, qfail) ==
    /\ HostRunning
    /\ thr[th].pc = "tf"
    /\ critical' = CriticalAlert(ReadWatermark(cacheOpen, qfail))
    /\ thr' = [thr EXCEPT ![th].pc = "exited"]
    /\ UNCHANGED <<active, alerts>>
    /\ UNCHANGED threadFrame
    /\ UNCHANGED opVars
    /\ UNCHANGED <<trips, tripSeq, cacheTrips, recVars, lookup, restarts,
                   nameLookup, connCall, smtp, sync, albumVars>>

ConcInit == Init /\ url = [p \in Providers |-> TRUE]

ConcNext ==
    \/ \E p \in Providers, ok \in BOOLEAN : ConnectProvider(p, ok)
    \/ \E open \in BOOLEAN : CtorFinish(open)
    \/ \E qfail \in BOOLEAN : TotalFailureReadCache(qfail)
    \/ TotalFailureAlert
    \/ TotalFailureExit
    \/ \E th \in Threads : ThreadCall(th)
    \/ \E th \in Threads, p \in Providers : ThreadOptions(th, p)
    \/ \E th \in Threads, out \in ReadOutcomes, rc \in BOOLEAN :
         ThreadExec(th, out, rc)
    \/ \E th \in Threads, qfail \in BOOLEAN : ThreadTotalFailure(th, qfail)

\* Construction of an instance, then one read call from each of two host
\* threads.
ConcSpec == ConcInit /\ [][ConcNext]_vars

\* C31 (as claimed): with two threads calling the store, a step emits a
\* single-provider alert for p only when it takes p from active to
\* inactive (two operations that saw the same provider fail produce one
\* transition and one alert), and total-failure handling runs in at most
\* one thread.
C31_SerializedTransitions ==
    /\ [](Cardinality({th \in Threads : thr[th].pc = "exited"}) <= 1)
    /\ [][\A p \in Providers :
            (pc = "idle" /\ alerts'[p] > alerts[p]) =>
                (active[p] /\ ~active'[p])]_vars

\* the rows write w left on provider p
RowsOfWrite(p, w) == {r \in tbl[p] : r[2] = w}

\* C32 (as claimed): a write call applies its statement at most once on
\* each provider: no provider holds two rows of the same insert_file call.
C32_AppliedAtMostOnce ==
    \A p \in Providers : \A w \in 1..MaxWrites :
        Cardinality(RowsOfWrite(p, w)) <= 1

\* what file_exists_by_hash(key) returns in the current state when the
\* cache query does not raise (lines 521-526): the cache's answer
ExistsByHashNow(key) == Found("exists_by_hash", key, cache, cacheTrips)

\* C33 (as claimed): with the cache open and its queries working, whenever
\* get_file_by_hash(h) has returned, file_exists_by_hash(h) returns true in
\* that state if and only if the get returned a record.
C33_HashLookupsAgree ==
    (/\ pc = "idle" /\ cacheOpen
     /\ lookup.op = "get_by_hash" /\ lookup.source \in {"cache", "cloud"}
     /\ ~lookup.cacheRaised) =>
        (lookup.answer <=> ExistsByHashNow(lookup.key))

\* ------------------------------------------------- full sync
\* SELECT MAX(sl_no) FROM trips_config on the cache (lines 454-458)
CacheTripsMax == MaxSlNo(cacheTrips)

\* execute_query(is_write=False) is entered from sync_cloud_to_local
SyncEnterRead ==
    /\ kind' = "read"
    /\ startActive' = active
    /\ attempt' = 0
    /\ success' = AllFalse
    /\ res' = [p \in Providers |-> NoRow]
    /\ outcome' = "none"
    /\ result' = NoRow
    /\ servedBy' = "none"
    /\ depth' = 0
    /\ execs' = AllZero
    /\ reconns' = AllZero
    /\ retryOf' = "none"
    /\ lastExec' = NoExec
    /\ pc' = "read"

syncFrame == <<url, useCache, active, tbl, seq, cacheOpen, alerts, critical,
               lastSl, queryFailed, exitCode, acked, startedBoth, curW, trips,
               tripSeq, recVars, lookup, restarts, nameLookup, connCall, smtp,
               thr, albumVars>>

\* sync_cloud_to_local up to its first read (lines 424-439): nothing without
\* a cache connection; else the cache's MAX(sl_no) (`ok` false: the query
\* raised, line 490 logs) and the SELECT of the rows above it
SyncBegin(ok) ==
    /\ pc = "idle"
    /\ sync.phase = "none"
    /\ cacheOpen
    /\ IF ok
       THEN /\ sync' = [sync EXCEPT !.phase = "media"]
            /\ SyncEnterRead
       ELSE /\ sync' = [sync EXCEPT !.phase = "done", !.err = TRUE]
            /\ kind' = "sync"
            /\ outcome' = "returned"
            /\ UNCHANGED <<pc, startActive, attempt, success, res, result,
                           servedBy, depth, execs, reconns, retryOf, lastExec>>
    /\ UNCHANGED <<cache, cacheTrips>>
    /\ UNCHANGED syncFrame

\* the rows a read of sync_cloud_to_local returned: those of the serving
\* provider above the cache's max, ascending; none when execute_query
\* returned None
SyncRows(rows, p, above) ==
    IF p = "none" THEN <<>> ELSE MissingRows(rows[p], above)

\* The rest of sync_cloud_to_local, from one read's return to the next read
\* or the end: the REPLACE loop for media_library (441-448) and the read for
\* trips_config (454-461); the REPLACE loop for trips_config (462-468) and
\* the COUNT read (475-476); the comparison of the counts, which only logs
\* (478-488).  `ok` false: a cache statement raised, and the except branch
\* of line 490 ends the call.
SyncContinue(ok) ==
    /\ pc = "idle"
    /\ kind = "read"
    /\ outcome = "returned"
    /\ sync.phase \in {"media", "trips", "count"}
    /\ IF ~ok
       THEN /\ sync' = [sync EXCEPT !.phase = "done", !.err = TRUE]
            /\ kind' = "sync"
            /\ UNCHANGED <<cache, cacheTrips, pc, startActive, attempt,
                           success, res, outcome, result, servedBy, depth,
                           execs, reconns, retryOf, lastExec>>
       ELSE IF sync.phase = "media"
       THEN /\ cache' = CacheUpsertAll("media_library", cache,
                                       SyncRows(tbl, servedBy, CacheMax))
            /\ sync' = [sync EXCEPT !.phase = "trips", !.served = servedBy]
            /\ SyncEnterRead
            /\ UNCHANGED cacheTrips
       ELSE IF sync.phase = "trips"
       THEN /\ cacheTrips' = CacheUpsertAll("trips_config", cacheTrips,
                                            SyncRows(trips, servedBy,
                                                     CacheTripsMax))
            /\ sync' = [sync EXCEPT !.phase = "count"]
            /\ SyncEnterRead
            /\ UNCHANGED cache
       ELSE /\ sync' = [sync EXCEPT !.phase = "done"]
            /\ kind' = "sync"
            /\ UNCHANGED <<cache, cacheTrips, pc, startActive, attempt,
                           success, res, outcome, result, servedBy, depth,
                           execs, reconns, retryOf, lastExec>>
    /\ UNCHANGED syncFrame

\* insert_file is called before the sync
SyncWrite == sync.phase = "none" /\ WriteBegin

SyncInit ==
    /\ Init
    /\ useCache
    /\ url = [p \in Providers |-> TRUE]

SyncNext ==
    \/ Step
    \/ SyncWrite
    \/ \E ok \in BOOLEAN : SyncBegin(ok)
    \/ \E ok \in BOOLEAN : SyncContinue(ok)

\* A cached instance, writes, and one call of sync_cloud_to_local.
SyncSpec == SyncInit /\ [][SyncNext]_vars

\* C34 (as claimed): when sync_cloud_to_local has completed without error,
\* the media cache holds every media_library row of the provider that
\* served its read.
C34_SyncComplete ==
    (sync.phase = "done" /\ ~sync.err /\ sync.served # "none") =>
        tbl[sync.served] \subseteq cache

\* C35 (as claimed): caching the row insert_file got back never removes a
\* cached row of another logical record: every record cached before the
\* step of insert_file that writes the cache is still cached after it.
C35_CacheKeepsRecords ==
    [][(kind = "write" /\ cache' # cache) =>
          \A r \in cache : \E q \in cache' : q[2] = r[2]]_vars

StartCacheOf(t) ==
    IF t = "media_library" THEN recStart.cache ELSE recStart.cacheTrips

\* the lagger of table t lacks a row of the leader above the max it
\* started the pass with
C37_TransferIncomplete(t) ==
    LET lead == recLeader[t]
        lag == OtherProvider(lead)
    IN \E r \in Rows(t, lead) :
          r[1] > MaxSlNo(StartOf(t, lag)) /\ r \notin Rows(t, lag)

\* the step writes the cache table of t or sends its recovery alert
C37_CacheStep(t) == CacheOf(t)' # CacheOf(t) \/ recAlert'[t] > recAlert[t]

\* C37: in a reconciliation transfer the cache upserts and the
\* recovery-success alert come only after every fetched row is in the
\* lagger; an INSERT into the lagger that raises leaves the cache
\* unchanged, and a table whose transfer stayed incomplete has no cache
\* upsert and no recovery alert in that pass.
C37_CacheAfterAllInserts ==
    /\ [](\A t \in Tables :
            (recLeader[t] # "none" /\ C37_TransferIncomplete(t)) =>
                /\ recAlert[t] = 0 /\ recCached[t] = 0
                /\ CacheOf(t) = StartCacheOf(t))
    /\ [][/\ \A t \in Tables :
                C37_CacheStep(t) =>
                    /\ pc = "rec_cache" /\ recTable = t
                    /\ recMissing = <<>>
                    /\ recInserted[t] = Len(recFetched)
                    /\ \A i \in 1..Len(recFetched) :
                         recFetched[i] \in Rows(t, OtherProvider(recLeader[t]))
          /\ (pc = "rec_insert" /\ recFaults' > recFaults) =>
                /\ cache' = cache /\ cacheTrips' = cacheTrips
                /\ recAlert' = recAlert /\ recCached' = recCached]_vars

\* C37 witness: with the cache open, the second INSERT of media_library's
\* transfer raised; the pass returned, the cache is empty and no recovery
\* alert went out for the table.
C37_Witness ==
    /\ RecReturned /\ cacheOpen
    /\ recLeader["media_library"] # "none"
    /\ recInserted["media_library"] = 1 /\ recErr["media_library"]
    /\ C37_TransferIncomplete("media_library")
    /\ cache = {} /\ recAlert["media_library"] = 0

\* a statement of reconcile_databases is about to run
InReconcile ==
    pc \in {"rec_compare", "rec_insert", "rec_cache", "rec_sync_A",
            "rec_sync_B"}

\* what a step of reconciliation may do to table t, given max(sl_no) on the
\* two providers when the pass began: nothing to the provider with the
\* greater max, and nothing at all when the two are equal
C38_TableFrame(t) ==
    LET ma == MaxSlNo(StartOf(t, "A"))
        mb == MaxSlNo(StartOf(t, "B"))
    IN /\ ma > mb => Rows(t, "A")' = Rows(t, "A")
       /\ mb > ma => Rows(t, "B")' = Rows(t, "B")
       /\ ma = mb => /\ Rows(t, "A")' = Rows(t, "A")
                     /\ Rows(t, "B")' = Rows(t, "B")
                     /\ CacheOf(t)' = CacheOf(t)

\* C38 (as claimed): no step of reconciliation changes a row of the
\* leader's table or a provider's active flag, and with max(sl_no) equal on
\* both providers no step changes a table.
C38_ReconcileFrame ==
    [][InReconcile =>
          /\ active' = active
          /\ \A t \in Tables : C38_TableFrame(t)]_vars

\* ------------------------------------------------- update_trip_album_id
\* what one cursor.execute of the UPDATE can do (nothing is fetched)
UpdateOutcomes == {"ok", "exec_conn", "exec_hard"}

updFrame == <<url, useCache, tbl, seq, cacheOpen, cache, critical, lastSl,
              queryFailed, exitCode, acked, startedBoth, curW, trips, tripSeq,
              cacheTrips, recVars, lookup, restarts, nameLookup, connCall,
              smtp, thr, sync>>

\* update_trip_album_id(trip, id) enters execute_query(is_write=True)
\* (lines 595-597, 166-170)
UpdBegin(id) ==
    /\ pc = "idle"
    /\ upd = NoUpdate
    /\ upd' = [id |-> id, write |-> "running", call |-> "running"]
    /\ kind' = "update"
    /\ startActive' = active
    /\ attempt' = 0
    /\ success' = AllFalse
    /\ res' = [p \in Providers |-> NoRow]
    /\ outcome' = "none"
    /\ result' = NoRow
    /\ servedBy' = "none"
    /\ depth' = 0
    /\ execs' = AllZero
    /\ reconns' = AllZero
    /\ retryOf' = "none"
    /\ lastExec' = NoExec
    /\ pc' = "write_A"
    /\ UNCHANGED <<active, alerts, album, cacheAlbum>>
    /\ UNCHANGED updFrame

\* the provider's `if` is false (lines 172, 191)
UpdSkip(p) ==
    /\ pc = WritePc(p)
    /\ kind = "update"
    /\ p \notin WriteTargets(active)
    /\ pc' = AfterWritePc(p)
    /\ UNCHANGED <<active, alerts, album, cacheAlbum, upd>>
    /\ UNCHANGED opVars
    /\ UNCHANGED updFrame

\* one iteration of the attempt loop on provider p for the UPDATE (173-189,
\* 192-208)
UpdAttempt(p, out, rc) ==
    /\ pc = WritePc(p)
    /\ kind = "update"
    /\ p \in WriteTargets(active)
    /\ execs' = [execs EXCEPT ![p] = @ + 1]
    /\ IF out = "ok"
       THEN /\ album' = [album EXCEPT ![p] = upd.id]
            /\ success' = [success EXCEPT ![p] = TRUE]
            /\ pc' = AfterWritePc(p)
            /\ attempt' = 0
            /\ UNCHANGED <<active, alerts, reconns>>
       ELSE /\ UNCHANGED <<album, success>>
            /\ IF ShouldReconnect(attempt, out) /\ rc
               THEN /\ reconns' = [reconns EXCEPT ![p] = @ + 1]
                    /\ active' = ReconnectProvider(active, p, TRUE)
                    /\ attempt' = IF attempt = 0 THEN 1 ELSE 0
                    /\ pc' = IF attempt = 0 THEN pc ELSE AfterWritePc(p)
                    /\ UNCHANGED alerts
               ELSE /\ reconns' = IF ShouldReconnect(attempt, out)
                                  THEN [reconns EXCEPT ![p] = @ + 1]
                                  ELSE reconns
                    /\ active' = MarkInactive(active, p)
                    /\ alerts' = HandleSingleFailure(alerts, p)
                    /\ attempt' = 0
                    /\ pc' = AfterAlertPc(AfterWritePc(p))
    /\ UNCHANGED <<cacheAlbum, upd>>
    /\ UNCHANGED <<kind, res, startActive, outcome, result, servedBy, depth,
                   retryOf, lastExec>>
    /\ UNCHANGED updFrame

\* lines 603-604: `except Exception` logs whatever execute_query or the
\* cache raised, and update_trip_album_id returns
UpdateCallOutcome(writeOutcome) == "returned"

\* The end of the mirrored write (210-216) and the rest of
\* update_trip_album_id: after a normal return the cache row is updated
\* (599-602; `ok` false: the cache statement raised); the mirrored-write
\* exception goes to the except branch; sys.exit passes through it.
UpdFinish(ok) ==
    /\ pc = "write_end"
    /\ kind = "update"
    /\ LET wo == WriteOutcome(active, success)
       IN IF wo = "total_failure"
          THEN /\ pc' = "tf_read"
               /\ outcome' = wo
               /\ upd' = [upd EXCEPT !.write = wo]
               /\ UNCHANGED cacheAlbum
          ELSE /\ pc' = "idle"
               /\ outcome' = UpdateCallOutcome(wo)
               /\ upd' = [upd EXCEPT !.write = wo,
                                     !.call = UpdateCallOutcome(wo)]
               /\ cacheAlbum' = IF wo = "returned" /\ cacheOpen /\ ok
                                THEN upd.id ELSE cacheAlbum
    /\ UNCHANGED <<active, alerts, album>>
    /\ UNCHANGED <<kind, attempt, success, res, startActive, result, servedBy,
                   depth, execs, reconns, retryOf, lastExec>>
    /\ UNCHANGED updFrame

AlbumInit == Init /\ url = [p \in Providers |-> TRUE]

AlbumNext ==
    \/ \E p \in Providers, ok \in BOOLEAN : ConnectProvider(p, ok)
    \/ \E open \in BOOLEAN : CtorFinish(open)
    \/ \E id \in AlbumIds : UpdBegin(id)
    \/ \E p \in Providers : UpdSkip(p)
    \/ \E p \in Providers, out \in UpdateOutcomes, rc \in BOOLEAN :
         UpdAttempt(p, out, rc)
    \/ \E ok \in BOOLEAN : UpdFinish(ok)
    \/ \E qfail \in BOOLEAN : TotalFailureReadCache(qfail)
    \/ TotalFailureAlert
    \/ TotalFailureExit

\* Construction of an instance and one call of update_trip_album_id.
AlbumSpec == AlbumInit /\ [][AlbumNext]_vars

\* a host thread reads while update_trip_album_id is running
UpdThreadCall(th) == upd.call = "running" /\ ThreadCall(th)
UpdThreadOptions(th, p) == upd.call = "running" /\ ThreadOptions(th, p)
UpdThreadExec(th, out, rc) == upd.call = "running" /\ ThreadExec(th, out, rc)
UpdThreadTotalFailure(th, qfail) ==
    upd.call = "running" /\ ThreadTotalFailure(th, qfail)

\* the one thread that reads beside the update
Reader == "t1"

AlbumConcNext ==
    \/ AlbumNext
    \/ UpdThreadCall(Reader)
    \/ \E p \in Providers : UpdThreadOptions(Reader, p)
    \/ \E out \in ReadOutcomes, rc \in BOOLEAN : UpdThreadExec(Reader, out, rc)
    \/ \E qfail \in BOOLEAN : UpdThreadTotalFailure(Reader, qfail)

\* One call of update_trip_album_id while another host thread reads.
AlbumConcSpec == AlbumInit /\ [][AlbumConcNext]_vars

\* C39 (as claimed): the cached album id changes only after the mirrored
\* write returned normally; when the mirrored write raised its write-quorum
\* exception the cache row is unchanged and the call of
\* update_trip_album_id ends with that exception.
C39_UpdateSurfacesFailure ==
    /\ cacheAlbum # NoAlbum => upd.write = "returned"
    /\ upd.write = "raised" =>
           /\ cacheAlbum = NoAlbum
           /\ upd.call = "raised"

====
